---- MODULE Spec2Model ----
(***************************************************************************)
(* A model of the Kolam design generator's core:                           *)
(*   - PatternValidator and PatternAnalyzer            (src/validator.py)  *)
(*   - KolamGenerator, the grid engine           (src/kolam_generator.py)  *)
(*                                                                         *)
(* Conventions.                                                            *)
(*  * A validator Point holds floats.  The model holds every coordinate    *)
(*    DOUBLED, as an integer: the point (0.5, 1) is [x |-> 1, y |-> 2].    *)
(*    Every coordinate of the model is therefore a multiple of 0.5, every  *)
(*    sum, difference and product the code forms on them is exact in       *)
(*    binary floating point, and quotients are compared by cross           *)
(*    multiplication.                                                      *)
(*  * Python lists are sequences; Python indices are 0-based, so           *)
(*    points[i] of the code is points[i + 1] here.  Indices that appear in *)
(*    connections, messages and metadata keep their Python values.         *)
(*  * A Python list or dict is an object: the model keeps a heap of        *)
(*    objects, and a field or a result holds an object's id.               *)
(*  * validate_pattern is modelled for pattern_type = "general", its       *)
(*    default: lines 109-112 of validator.py then take neither branch.     *)
(***************************************************************************)
EXTENDS Integers, Sequences, FiniteSets, TLC

VARIABLES
    validator,   \* the PatternValidator: [tolerance, errors, warnings, metadata]
    heap,        \* object id -> contents of a list or dict
    pending,     \* the call about to be made, when its arguments are drawn up front
    log,         \* the calls made so far, with their arguments and results
    width,       \* KolamGenerator.width
    height,      \* KolamGenerator.height
    grid,        \* KolamGenerator.grid: <<x, y>> -> cell value
    patterns,    \* KolamGenerator.patterns: name -> set of points
    ncalls,      \* number of KolamGenerator calls made
    ret          \* the latest KolamGenerator call and its outcome

vars == <<validator, heap, pending, log, width, height, grid, patterns, ncalls, ret>>

validatorVars == <<validator, heap, pending, log>>
gridVars == <<width, height, grid, patterns, ncalls, ret>>

----------------------------------------------------------------------------
(* Bounds of the model *)

MaxPoints == 3
MaxConns == 3
MaxCalls == 2
MaxGridCalls == 3
MaxDrawCalls == 4
MaxRings == 3

----------------------------------------------------------------------------
(* Small helpers *)

Abs(i) == IF i < 0 THEN -i ELSE i

Min2(a, b) == IF a <= b THEN a ELSE b

Max2(a, b) == IF a >= b THEN a ELSE b

SetMin(S) == CHOOSE m \in S : \A e \in S : m <= e

SetMax(S) == CHOOSE m \in S : \A e \in S : m >= e

RECURSIVE SeqSum(_)
SeqSum(s) == IF s = <<>> THEN 0 ELSE Head(s) + SeqSum(Tail(s))

Range(s) == {s[i] : i \in DOMAIN s}

SeqsUpTo(S, n) == UNION {[1..k -> S] : k \in 0..n}

----------------------------------------------------------------------------
(* validator.py: Point *)

Point(x, y) == [x |-> x, y |-> y]

\* Point.__hash__: hash((round(x, 10), round(y, 10))).  A multiple of 0.5
\* is its own rounding to 10 decimals.
PointHash(p) == <<p.x, p.y>>

\* Point.__eq__: both coordinates differ by less than 1e-9.  Two multiples
\* of 0.5 are that close only when they are the same number.
PointEq(p, q) == Abs(p.x - q.x) = 0 /\ Abs(p.y - q.y) = 0

\* `point in unique_points` on a Python set: an element with the same hash
\* that compares equal.
InPointSet(p, S) == \E q \in S : PointHash(q) = PointHash(p) /\ PointEq(q, p)

----------------------------------------------------------------------------
(* validator.py: PatternValidator *)

PerfAdvisoryPoints == 10000

\* A formatted message: the format string and the values put into it.
Msg(text, args) == [text |-> text, args |-> args]

\* st is [self |-> the validator's fields, heap |-> the heap].
AddError(st, m) == [st EXCEPT !.heap[st.self.errors] = Append(@, m)]

AddWarning(st, m) == [st EXCEPT !.heap[st.self.warnings] = Append(@, m)]

SetMeta(st, key, val) == [st EXCEPT !.heap[st.self.metadata] = (key :> val) @@ @]

\* The loop of _validate_points: i is the 1-based position.
RECURSIVE DupScan(_, _, _, _)
DupScan(points, i, unique, duplicates) ==
    IF i > Len(points) THEN [unique |-> unique, duplicates |-> duplicates]
    ELSE IF InPointSet(points[i], unique)
         THEN DupScan(points, i + 1, unique, Append(duplicates, i - 1))
         ELSE DupScan(points, i + 1, unique \cup {points[i]}, duplicates)

_validate_points(st, points) ==
    IF points = <<>>
    THEN AddError(st, Msg("Pattern must contain at least one point", <<>>))
    ELSE LET st1 == IF Len(points) > PerfAdvisoryPoints
                    THEN AddWarning(st, Msg("Pattern contains {} points, may affect performance",
                                            <<Len(points)>>))
                    ELSE st
             scan == DupScan(points, 1, {}, <<>>)
             st2 == IF scan.duplicates # <<>>
                    THEN AddWarning(st1, Msg("Found {} duplicate point(s) at indices: {}",
                                             <<Len(scan.duplicates)>> \o scan.duplicates))
                    ELSE st1
         IN  SetMeta(SetMeta(st2, "total_points", Len(points)),
                     "unique_points", Cardinality(scan.unique))

InRange(idx, n) == 0 <= idx /\ idx < n

\* One iteration of the loop of _validate_connections, for connection k
\* (0-based) = <<p1_idx, p2_idx>>.
ConnCheck(st, n, k, conn) ==
    LET s1 == IF ~InRange(conn[1], n)
              THEN AddError(st, Msg("Connection {}: point index {} out of range", <<k, conn[1]>>))
              ELSE st
        s2 == IF ~InRange(conn[2], n)
              THEN AddError(s1, Msg("Connection {}: point index {} out of range", <<k, conn[2]>>))
              ELSE s1
    IN  IF conn[1] = conn[2]
        THEN AddWarning(s2, Msg("Connection {}: self-loop detected", <<k>>))
        ELSE s2

RECURSIVE ConnScan(_, _, _, _)
ConnScan(st, n, connections, i) ==
    IF i > Len(connections) THEN st
    ELSE ConnScan(ConnCheck(st, n, i - 1, connections[i]), n, connections, i + 1)

\* Mutant: >= in place of >.
ExceedsMaxConnections_AtLeast(n, m) == 2 * m >= n * (n - 1)

\* len(connections) > len(points) * (len(points) - 1) / 2
ExceedsMaxConnections(n, m) == 2 * m > n * (n - 1)

_validate_connections(st, points, connections) ==
    IF connections = <<>>
    THEN AddWarning(st, Msg("Pattern has no connections", <<>>))
    ELSE IF ExceedsMaxConnections(Len(points), Len(connections))
    THEN AddError(st, Msg("Number of connections exceeds maximum possible", <<>>))
    ELSE SetMeta(ConnScan(st, Len(points), connections, 1),
                 "total_connections", Len(connections))

\* f"{w / h:.2f}" for w >= 0, h > 0: the quotient in hundredths, rounded to
\* the nearest, a tie going to the even neighbour.
Hundredths(w, h) ==
    LET q == (100 * w) \div h
        r == (100 * w) % h
    IN  IF 2 * r > h \/ (2 * r = h /\ q % 2 = 1) THEN q + 1 ELSE q

_validate_geometric_constraints(st, points) ==
    IF Len(points) < 2 THEN st
    ELSE LET xs == {points[i].x : i \in DOMAIN points}
             ys == {points[i].y : i \in DOMAIN points}
             min_x == SetMin(xs)
             max_x == SetMax(xs)
             min_y == SetMin(ys)
             max_y == SetMax(ys)
             w == max_x - min_x
             h == max_y - min_y
             st1 == IF w = 0 \/ h = 0
                    THEN AddWarning(st, Msg("Pattern is degenerate (all points on a line)", <<>>))
                    ELSE st
             \* aspect_ratio = width / height if height > 0 else inf
             extreme == IF h > 0 THEN (w > 10 * h \/ 10 * w < h) ELSE TRUE
             st2 == IF ~extreme THEN st1
                    ELSE IF h > 0
                    THEN AddWarning(st1, Msg("Pattern has extreme aspect ratio: {:.2f}",
                                             <<Hundredths(w, h)>>))
                    ELSE AddWarning(st1, Msg("Pattern has extreme aspect ratio: inf", <<>>))
         IN  SetMeta(st2, "bounding_box",
                     [min_x |-> min_x, max_x |-> max_x, min_y |-> min_y,
                      max_y |-> max_y, width |-> w, height |-> h])

\* Mutant: an edge is entered in one direction only.
RECURSIVE BuildAdjacency_OneWay(_, _, _, _)
BuildAdjacency_OneWay(adjacency, n, connections, i) ==
    IF i > Len(connections) THEN adjacency
    ELSE LET p1 == connections[i][1]
             p2 == connections[i][2]
         IN  IF InRange(p1, n) /\ InRange(p2, n)
             THEN BuildAdjacency_OneWay([adjacency EXCEPT ![p1] = Append(@, p2)],
                                        n, connections, i + 1)
             ELSE BuildAdjacency_OneWay(adjacency, n, connections, i + 1)

\* Mutant: a self-loop is entered once in the list of its point.
RECURSIVE BuildAdjacency_LoopOnce(_, _, _, _)
BuildAdjacency_LoopOnce(adjacency, n, connections, i) ==
    IF i > Len(connections) THEN adjacency
    ELSE LET p1 == connections[i][1]
             p2 == connections[i][2]
         IN  IF InRange(p1, n) /\ InRange(p2, n)
             THEN LET a1 == [adjacency EXCEPT ![p1] = Append(@, p2)]
                      a2 == IF p1 = p2 THEN a1 ELSE [a1 EXCEPT ![p2] = Append(@, p1)]
                  IN  BuildAdjacency_LoopOnce(a2, n, connections, i + 1)
             ELSE BuildAdjacency_LoopOnce(adjacency, n, connections, i + 1)

\* The adjacency list of _validate_connectivity: node -> list of neighbours.
RECURSIVE BuildAdjacency(_, _, _, _)
BuildAdjacency(adjacency, n, connections, i) ==
    IF i > Len(connections) THEN adjacency
    ELSE LET p1 == connections[i][1]
             p2 == connections[i][2]
         IN  IF InRange(p1, n) /\ InRange(p2, n)
             THEN LET a1 == [adjacency EXCEPT ![p1] = Append(@, p2)]
                      a2 == [a1 EXCEPT ![p2] = Append(@, p1)]
                  IN  BuildAdjacency(a2, n, connections, i + 1)
             ELSE BuildAdjacency(adjacency, n, connections, i + 1)

\* The inner loop of _is_graph_connected over adjacency[node].
RECURSIVE VisitNeighbors(_, _, _, _)
VisitNeighbors(neighbors, j, visited, queue) ==
    IF j > Len(neighbors) THEN [visited |-> visited, queue |-> queue]
    ELSE IF neighbors[j] \notin visited
         THEN VisitNeighbors(neighbors, j + 1, visited \cup {neighbors[j]},
                             Append(queue, neighbors[j]))
         ELSE VisitNeighbors(neighbors, j + 1, visited, queue)

\* The while loop of _is_graph_connected.
RECURSIVE BfsLoop(_, _, _)
BfsLoop(adjacency, visited, queue) ==
    IF queue = <<>> THEN visited
    ELSE LET node == Head(queue)
             r == VisitNeighbors(adjacency[node], 1, visited, Tail(queue))
         IN  BfsLoop(adjacency, r.visited, r.queue)

_is_graph_connected(adjacency, num_nodes) ==
    IF num_nodes = 0 THEN TRUE
    ELSE Cardinality(BfsLoop(adjacency, {0}, <<0>>)) = num_nodes

\* The connectivity warning of _validate_connectivity (lines 226-230).
ConnectivityFinding(st, is_connected) ==
    IF ~is_connected
    THEN AddWarning(st, Msg("Pattern is not fully connected", <<>>))
    ELSE st

_validate_connectivity(st, points, connections) ==
    IF connections = <<>> THEN st
    ELSE LET n == Len(points)
             adjacency == BuildAdjacency([i \in 0..(n - 1) |-> <<>>], n, connections, 1)
             isolated_points == {i \in 0..(n - 1) : adjacency[i] = <<>>}
             st1 == IF isolated_points # {}
                    THEN AddWarning(st, Msg("Found {} isolated point(s)",
                                            <<Cardinality(isolated_points)>>))
                    ELSE st
             is_connected == _is_graph_connected(adjacency, n)
             st2 == IF n > 1
                    THEN ConnectivityFinding(SetMeta(st1, "is_connected", is_connected),
                                             is_connected)
                    ELSE st1
             degrees == [i \in 1..n |-> Len(adjacency[i - 1])]
         IN  SetMeta(st2, "degree_stats",
                     IF n > 0
                     THEN [min |-> SetMin(Range(degrees)), max |-> SetMax(Range(degrees)),
                           mean |-> [num |-> SeqSum(degrees), den |-> n]]
                     ELSE [min |-> 0, max |-> 0, mean |-> [num |-> 0, den |-> 1]])

\* Mutant: the lists and the dict are emptied in place, self.errors.clear()
\* and so on, and no new object is made.
ResetFindings_InPlace(st) ==
    [self |-> st.self,
     heap |-> [st.heap EXCEPT ![st.self.errors] = <<>>, ![st.self.warnings] = <<>>,
                              ![st.self.metadata] = <<>>]]

\* Lines 98-100: self.errors = [], self.warnings = [], self.metadata = {}.
\* Three new objects; the old ones stay as they are.
ResetFindings(st) ==
    LET base == Cardinality(DOMAIN st.heap)
    IN  [self |-> [st.self EXCEPT !.errors = base + 1, !.warnings = base + 2,
                                  !.metadata = base + 3],
         heap |-> (base + 1 :> <<>>) @@ (base + 2 :> <<>>) @@ (base + 3 :> <<>>) @@ st.heap]

\* validate_pattern(points, connections): the state it leaves and its result.
validate_pattern(st, points, connections) ==
    LET s0 == ResetFindings(st)
        s1 == _validate_points(s0, points)
        s2 == _validate_connections(s1, points, connections)
        s3 == _validate_geometric_constraints(s2, points)
        s4 == _validate_connectivity(s3, points, connections)
    IN  [st |-> s4,
         result |-> [is_valid |-> Len(s4.heap[s4.self.errors]) = 0,
                     errors |-> s4.self.errors,
                     warnings |-> s4.self.warnings,
                     metadata |-> s4.self.metadata]]

----------------------------------------------------------------------------
(* validator.py: PatternValidator.check_symmetry *)

\* PatternValidator.__init__: tolerance = 1e-6.  The model holds a tolerance
\* by its inverse: tolerance = 1 / tolerance_inv.
DefaultToleranceInv == 1000000

\* sqrt(d2) / scale < 1 / tolerance_inv, for integers d2 >= 0, scale > 0.
\* With d2 >= 1 and tolerance_inv >= scale the left side is at least
\* 1 / scale >= 1 / tolerance_inv.
WithinTolerance(d2, scale, tolerance_inv) ==
    IF d2 = 0 THEN TRUE
    ELSE IF tolerance_inv >= scale THEN FALSE
    ELSE tolerance_inv * tolerance_inv * d2 < scale * scale

\* sqrt(p + q * sqrt(3)) / scale < 1 / tolerance_inv, where p + q * sqrt(3)
\* is a squared distance (so >= 0).  When p, q are not both 0,
\* p + q * sqrt(3) = (p^2 - 3 q^2) / (p - q * sqrt(3)) >= 1 / (|p| + 2 |q|).
WithinToleranceSqrt3(p, q, scale, tolerance_inv) ==
    IF p = 0 /\ q = 0 THEN TRUE
    ELSE IF tolerance_inv >= scale * (Abs(p) + 2 * Abs(q)) THEN FALSE
    ELSE LET t2q == tolerance_inv * tolerance_inv * q
             c == scale * scale - tolerance_inv * tolerance_inv * p
         IN  IF t2q >= 0 THEN c > 0 /\ 3 * t2q * t2q < c * c
             ELSE c >= 0 \/ 3 * t2q * t2q > c * c

CoordSum(points) ==
    [x |-> SeqSum([i \in DOMAIN points |-> points[i].x]),
     y |-> SeqSum([i \in DOMAIN points |-> points[i].y])]

\* Mutant: a point is not compared with itself.
BilateralMatch_OtherOnly(points, i, j, tolerance_inv) ==
    LET n == Len(points)
        s == CoordSum(points)
        ex == n * points[j].x - (2 * s.x - n * points[i].x)
        ey == n * points[j].y - n * points[i].y
    IN  i # j /\ WithinTolerance(ex * ex + ey * ey, 2 * n, tolerance_inv)

\* other.distance_to(reflected) < tolerance, where reflected is
\* Point(2 * center_x - point.x, point.y) and center = sum / n.
\* Coordinates are scaled by n (and are doubled): distances by 2n.
BilateralMatch(points, i, j, tolerance_inv) ==
    LET n == Len(points)
        s == CoordSum(points)
        ex == n * points[j].x - (2 * s.x - n * points[i].x)
        ey == n * points[j].y - n * points[i].y
    IN  WithinTolerance(ex * ex + ey * ey, 2 * n, tolerance_inv)

\* other.distance_to(rotated) < tolerance, where rotated is point turned
\* about center by rotation_angle degrees.  cos and sin of 90 and 180 degrees
\* are 0, 1 and -1, 0 to within 2e-16; of 120 degrees, -1/2 and sqrt(3)/2.
RotationalMatch(points, i, j, rotation_angle, tolerance_inv) ==
    LET n == Len(points)
        s == CoordSum(points)
        ndx == n * points[i].x - s.x
        ndy == n * points[i].y - s.y
    IN  CASE rotation_angle = 90 ->
               LET ex == n * points[j].x - (s.x - ndy)
                   ey == n * points[j].y - (s.y + ndx)
               IN  WithinTolerance(ex * ex + ey * ey, 2 * n, tolerance_inv)
          [] rotation_angle = 180 ->
               LET ex == n * points[j].x - (s.x - ndx)
                   ey == n * points[j].y - (s.y - ndy)
               IN  WithinTolerance(ex * ex + ey * ey, 2 * n, tolerance_inv)
          [] rotation_angle = 120 ->
               \* twice the differences are a + ndy * sqrt(3) and b - ndx * sqrt(3)
               LET a == 2 * n * points[j].x - 2 * s.x + ndx
                   b == 2 * n * points[j].y - 2 * s.y + ndy
               IN  WithinToleranceSqrt3(a * a + b * b + 3 * (ndx * ndx + ndy * ndy),
                                        2 * (a * ndy - b * ndx), 4 * n, tolerance_inv)

\* bilateral_match: the points for which the inner loop finds a match.
BilateralMatches(points, tolerance_inv) ==
    Cardinality({i \in DOMAIN points :
                    \E j \in DOMAIN points : BilateralMatch(points, i, j, tolerance_inv)})

RotationalMatches(points, rotation_angle, tolerance_inv) ==
    Cardinality({i \in DOMAIN points :
                    \E j \in DOMAIN points :
                        RotationalMatch(points, i, j, rotation_angle, tolerance_inv)})

\* matches / len(points) > 0.9
ExceedsNineTenths(matches, n) == 10 * matches > 9 * n

\* Mutant: the rotational tests come before the bilateral one.
check_symmetry_RotationFirst(self, points) ==
    IF Len(points) < 2 THEN "NONE"
    ELSE IF \E a \in {90, 120, 180} :
               ExceedsNineTenths(RotationalMatches(points, a, self.tolerance_inv), Len(points))
    THEN "ROTATIONAL"
    ELSE IF ExceedsNineTenths(BilateralMatches(points, self.tolerance_inv), Len(points))
    THEN "BILATERAL"
    ELSE "NONE"

check_symmetry(self, points) ==
    IF Len(points) < 2 THEN "NONE"
    ELSE IF ExceedsNineTenths(BilateralMatches(points, self.tolerance_inv), Len(points))
    THEN "BILATERAL"
    ELSE IF \E a \in {90, 120, 180} :
               ExceedsNineTenths(RotationalMatches(points, a, self.tolerance_inv), Len(points))
    THEN "ROTATIONAL"
    ELSE "NONE"

----------------------------------------------------------------------------
(* validator.py: PatternValidator.validate_line_continuity *)

\* points[idx] of a Python list of n elements, idx an integer: a negative
\* idx counts from the end, and an idx outside -n .. n-1 raises IndexError.
ListItem(points, idx) ==
    LET n == Len(points)
    IN  IF 0 <= idx /\ idx < n THEN [status |-> "ok", item |-> points[idx + 1]]
        ELSE IF -n <= idx /\ idx < 0 THEN [status |-> "ok", item |-> points[n + idx + 1]]
        ELSE [status |-> "IndexError", item |-> Point(0, 0)]

\* distance > max_gap, for the distance sqrt(d2) / 2 between two points with
\* doubled coordinates and max_gap = num / den, num >= 0, den > 0.
ExceedsGap(d2, max_gap) == d2 * max_gap.den * max_gap.den > 4 * max_gap.num * max_gap.num

\* The loop of validate_line_continuity from connection k (1-based) on: the
\* list of discontinuities, or the exception that ends the call.
RECURSIVE ContinuityScan(_, _, _, _, _)
ContinuityScan(points, connections, max_gap, k, discontinuities) ==
    IF k > Len(connections) THEN [status |-> "ok", discontinuities |-> discontinuities]
    ELSE LET p1_idx == connections[k][1]
             p2_idx == connections[k][2]
         IN  IF p1_idx >= Len(points) \/ p2_idx >= Len(points)
             THEN ContinuityScan(points, connections, max_gap, k + 1, discontinuities)
             ELSE LET p1 == ListItem(points, p1_idx)
                      p2 == ListItem(points, p2_idx)
                      d2 == (p1.item.x - p2.item.x) * (p1.item.x - p2.item.x)
                                + (p1.item.y - p2.item.y) * (p1.item.y - p2.item.y)
                  IN  IF p1.status # "ok" \/ p2.status # "ok"
                      THEN [status |-> "IndexError", discontinuities |-> <<>>]
                      ELSE ContinuityScan(points, connections, max_gap, k + 1,
                               IF ExceedsGap(d2, max_gap)
                               THEN Append(discontinuities,
                                           [connection_index |-> k - 1,
                                            points |-> <<p1_idx, p2_idx>>,
                                            distance |-> [sqrt_of |-> [num |-> d2, den |-> 4]]])
                               ELSE discontinuities)

\* validate_line_continuity: the dict it returns, or the exception the call
\* ends with.  continuity_percentage is held as a fraction.
validate_line_continuity(points, connections, max_gap) ==
    LET scan == ContinuityScan(points, connections, max_gap, 1, <<>>)
        total == Len(connections)
        broken == Len(scan.discontinuities)
    IN  IF scan.status # "ok" THEN [status |-> scan.status, result |-> <<>>]
        ELSE [status |-> "ok",
              result |-> [continuous |-> total - broken,
                          discontinuous |-> broken,
                          total_connections |-> total,
                          continuity_percentage |->
                              IF total # 0 THEN [num |-> (total - broken) * 100, den |-> total]
                              ELSE [num |-> 0, den |-> 1],
                          discontinuities |-> scan.discontinuities]]

----------------------------------------------------------------------------
(* validator.py: PatternAnalyzer *)

\* len(set(connections))
DistinctConnections(connections) == Cardinality(Range(connections))

\* calculate_pattern_complexity: the score as a fraction num / den, or the
\* exception the call ends with.
calculate_pattern_complexity(points, connections) ==
    LET n == Len(points)
        m == Len(connections)
    IN  IF n = 0 \/ m = 0 THEN [status |-> "ok", num |-> 0, den |-> 1]
        ELSE IF n * (n - 1) = 0 THEN [status |-> "ZeroDivisionError", num |-> 0, den |-> 1]
        ELSE \* (n / 100) * (m / (n (n - 1) / 2)) * (u / m)
             LET num == n * m * DistinctConnections(connections) * 2
                 den == 100 * n * (n - 1) * m
             IN  IF num >= den THEN [status |-> "ok", num |-> 1, den |-> 1]
                 ELSE [status |-> "ok", num |-> num, den |-> den]

\* calculate_stats of extract_pattern_features, for a non-empty list of
\* doubled coordinates d (the values are d / 2): mean = S / (2 n) with S the
\* sum of the d; variance = sum((n d - S)^2) / (4 n^3); std_dev is the
\* square root of the variance, held by the variance it is the root of.
calculate_stats(values) ==
    LET n == Len(values)
        S == SeqSum(values)
        variance == [num |-> SeqSum([i \in DOMAIN values |-> (n * values[i] - S) * (n * values[i] - S)]),
                     den |-> 4 * n * n * n]
    IN  [mean |-> [num |-> S, den |-> 2 * n],
         min |-> [num |-> SetMin(Range(values)), den |-> 2],
         max |-> [num |-> SetMax(Range(values)), den |-> 2],
         variance |-> variance,
         std_dev |-> [sqrt_of |-> variance]]

\* extract_pattern_features: the mapping it returns, or the exception the
\* call ends with.  The empty mapping is <<>>.
extract_pattern_features(points, connections) ==
    IF points = <<>> THEN [status |-> "ok", value |-> <<>>]
    ELSE LET x_coords == [i \in DOMAIN points |-> points[i].x]
             y_coords == [i \in DOMAIN points |-> points[i].y]
             complexity == calculate_pattern_complexity(points, connections)
         IN  IF complexity.status # "ok" THEN [status |-> complexity.status, value |-> <<>>]
             ELSE [status |-> "ok",
                   value |-> [point_count |-> Len(points),
                              connection_count |-> Len(connections),
                              x_statistics |-> calculate_stats(x_coords),
                              y_statistics |-> calculate_stats(y_coords),
                              complexity |-> complexity]]

----------------------------------------------------------------------------
(* kolam_generator.py: KolamGenerator, the grid engine *)

\* A grid Point: integer x and y, hashed and compared by value, so that a
\* Python set of Points is a set of these records.
GridPoint(x, y) == [x |-> x, y |-> y]

\* int() of the float d / 2: truncation toward zero.
IntOfHalf(d) == IF d >= 0 THEN d \div 2 ELSE -((-d) \div 2)

\* 0 <= x < self.width and 0 <= y < self.height
InBounds(self, x, y) == 0 <= x /\ x < self.width /\ 0 <= y /\ y < self.height

\* np.zeros((height, width)): cell <<x, y>> is grid[y, x] of the code.
_initialize_grid(w, h) == [c \in (0..(w - 1)) \X (0..(h - 1)) |-> 0]

\* {Point(x, y) for x, y in points}
PointSetOf(points) == {GridPoint(points[i][1], points[i][2]) : i \in DOMAIN points}

\* An Optional[Set[Point]]: None, or a set.
None == [none |-> TRUE, value |-> {}]

Some(S) == [none |-> FALSE, value |-> S]

\* A lookup that hands out an empty pattern for a name that is not stored.
get_pattern_EmptyWhenMissing(self, pattern_name) ==
    IF pattern_name \in DOMAIN self.patterns
    THEN Some(self.patterns[pattern_name])
    ELSE Some({})

\* self.patterns.get(pattern_name)
get_pattern(self, pattern_name) ==
    IF pattern_name \in DOMAIN self.patterns
    THEN Some(self.patterns[pattern_name])
    ELSE None

\* What a call ends with: a returned value, or ValueError with its message.
Returned(S) == [status |-> "ok", value |-> S, message |-> Msg("", <<>>)]

NotFound(pattern_name) ==
    [status |-> "ValueError", value |-> {},
     message |-> Msg("Pattern '{}' not found", <<pattern_name>>)]

\* An add that joins the new points to the ones stored under the name.
add_pattern_Merging(self, pattern_name, points) ==
    (pattern_name :> (PointSetOf(points) \cup get_pattern(self, pattern_name).value))
        @@ self.patterns

\* add_pattern: the new value of self.patterns.
add_pattern(self, pattern_name, points) ==
    (pattern_name :> PointSetOf(points)) @@ self.patterns

\* A draw that leaves alone every cell that already holds a value.
draw_pattern_KeepsDrawn(self, pattern_name, value) ==
    LET pattern == get_pattern(self, pattern_name)
    IN  IF pattern.none
        THEN [out |-> NotFound(pattern_name), grid |-> self.grid]
        ELSE [out |-> Returned({}),
              grid |-> [c \in DOMAIN self.grid |->
                           IF GridPoint(c[1], c[2]) \in pattern.value /\ self.grid[c] = 0
                           THEN value ELSE self.grid[c]]]

\* draw_pattern: the outcome and the new value of self.grid.
draw_pattern(self, pattern_name, value) ==
    LET pattern == get_pattern(self, pattern_name)
    IN  IF pattern.none
        THEN [out |-> NotFound(pattern_name), grid |-> self.grid]
        ELSE [out |-> Returned({}),
              grid |-> [c \in DOMAIN self.grid |->
                           IF GridPoint(c[1], c[2]) \in pattern.value
                           THEN value ELSE self.grid[c]]]

\* apply_horizontal_symmetry: center_x = width / 2, and every point joined
\* by Point(int(2 * center_x - x - 1), y).
apply_horizontal_symmetry(self, pattern_name) ==
    LET pattern == get_pattern(self, pattern_name)
    IN  IF pattern.none THEN NotFound(pattern_name)
        ELSE Returned(pattern.value \cup
                 {GridPoint(IntOfHalf(2 * self.width - 2 * p.x - 2), p.y) : p \in pattern.value})

\* A mirror across y = height / 2 that sends y to height - y.
apply_vertical_symmetry_OffCenter(self, pattern_name) ==
    LET pattern == get_pattern(self, pattern_name)
    IN  IF pattern.none THEN NotFound(pattern_name)
        ELSE Returned(pattern.value \cup
                 {GridPoint(p.x, self.height - p.y) : p \in pattern.value})

\* apply_vertical_symmetry: the same across center_y = height / 2.
apply_vertical_symmetry(self, pattern_name) ==
    LET pattern == get_pattern(self, pattern_name)
    IN  IF pattern.none THEN NotFound(pattern_name)
        ELSE Returned(pattern.value \cup
                 {GridPoint(p.x, IntOfHalf(2 * self.height - 2 * p.y - 2)) : p \in pattern.value})

\* A pass that keeps the turned points in place of the ones it turned.
RotateOnce_Replacing(self, S) ==
    {q \in {GridPoint(IntOfHalf(self.width - (2 * p.y - self.height)),
                      IntOfHalf(self.height + (2 * p.x - self.width))) : p \in S} :
        InBounds(self, q.x, q.y)}

\* One pass of the rotation loop: with dx = x - width / 2 and
\* dy = y - height / 2, the point (int(center_x - dy), int(center_y + dx)),
\* kept when it lies inside the grid.
RotateOnce(self, S) ==
    LET image == {GridPoint(IntOfHalf(self.width - (2 * p.y - self.height)),
                            IntOfHalf(self.height + (2 * p.x - self.width))) : p \in S}
    IN  S \cup {q \in image : InBounds(self, q.x, q.y)}

RECURSIVE RotateTimes(_, _, _)
RotateTimes(self, S, k) ==
    IF k <= 0 THEN S ELSE RotateTimes(self, RotateOnce(self, S), k - 1)

\* apply_rotational_symmetry: angle // 90 passes, each added to the set.
apply_rotational_symmetry(self, pattern_name, angle) ==
    LET pattern == get_pattern(self, pattern_name)
    IN  IF pattern.none THEN NotFound(pattern_name)
        ELSE Returned(RotateTimes(self, pattern.value, angle \div 90))

\* apply_diagonal_symmetry: every point, and its reflection when inside.
apply_diagonal_symmetry(self, pattern_name, main_diagonal) ==
    LET pattern == get_pattern(self, pattern_name)
        reflected(p) == IF main_diagonal
                        THEN GridPoint(p.y, p.x)
                        ELSE GridPoint(self.width - 1 - p.y, self.height - 1 - p.x)
    IN  IF pattern.none THEN NotFound(pattern_name)
        ELSE Returned(pattern.value \cup
                 {q \in {reflected(p) : p \in pattern.value} : InBounds(self, q.x, q.y)})

\* translate_pattern: the moved points that lie inside the grid.
translate_pattern(self, pattern_name, dx, dy) ==
    LET pattern == get_pattern(self, pattern_name)
    IN  IF pattern.none THEN NotFound(pattern_name)
        ELSE Returned({q \in {GridPoint(p.x + dx, p.y + dy) : p \in pattern.value} :
                          InBounds(self, q.x, q.y)})

\* A scaling that grows each point in place: the block of (x, y) starts at
\* (x, y), so the blocks of neighbouring points run into each other.
scale_pattern_InPlace(self, pattern_name, scale_factor) ==
    LET pattern == get_pattern(self, pattern_name)
        block(p) == {GridPoint(p.x + i, p.y + j) :
                        i \in 0..(scale_factor - 1), j \in 0..(scale_factor - 1)}
    IN  IF pattern.none THEN NotFound(pattern_name)
        ELSE Returned({q \in UNION {block(p) : p \in pattern.value} :
                          InBounds(self, q.x, q.y)})

\* scale_pattern: a scale_factor x scale_factor block per point, clipped.
scale_pattern(self, pattern_name, scale_factor) ==
    LET pattern == get_pattern(self, pattern_name)
        block(p) == {GridPoint(p.x * scale_factor + i, p.y * scale_factor + j) :
                        i \in 0..(scale_factor - 1), j \in 0..(scale_factor - 1)}
    IN  IF pattern.none THEN NotFound(pattern_name)
        ELSE Returned({q \in UNION {block(p) : p \in pattern.value} :
                          InBounds(self, q.x, q.y)})

\* The loop without the bounds test: every moved point is kept.
RECURSIVE ComposeScan_Unclipped(_, _, _, _, _)
ComposeScan_Unclipped(self, pattern_names, offsets, i, composed) ==
    IF i > Min2(Len(pattern_names), Len(offsets)) THEN Returned(composed)
    ELSE LET pattern == get_pattern(self, pattern_names[i])
             moved == {GridPoint(p.x + offsets[i][1], p.y + offsets[i][2]) : p \in pattern.value}
         IN  IF pattern.none THEN NotFound(pattern_names[i])
             ELSE ComposeScan_Unclipped(self, pattern_names, offsets, i + 1,
                                        composed \cup moved)

\* The loop of compose_patterns over zip(pattern_names, offsets), from pair
\* i on: the first name that is not stored ends the call.
RECURSIVE ComposeScan(_, _, _, _, _)
ComposeScan(self, pattern_names, offsets, i, composed) ==
    IF i > Min2(Len(pattern_names), Len(offsets)) THEN Returned(composed)
    ELSE LET pattern == get_pattern(self, pattern_names[i])
             moved == {GridPoint(p.x + offsets[i][1], p.y + offsets[i][2]) : p \in pattern.value}
         IN  IF pattern.none THEN NotFound(pattern_names[i])
             ELSE ComposeScan(self, pattern_names, offsets, i + 1,
                              composed \cup {q \in moved : InBounds(self, q.x, q.y)})

\* compose_patterns: offsets is None, or a list; None stands for one (0, 0)
\* per name.
compose_patterns(self, pattern_names, offsets) ==
    ComposeScan(self, pattern_names,
                IF offsets.none THEN [i \in 1..Len(pattern_names) |-> <<0, 0>>]
                ELSE offsets.value,
                1, {})

\* Neighbours on three sides only: none at (x - 1, y).
Directions_ThreeWay == <<<<0, 1>>, <<1, 0>>, <<0, -1>>>>

\* for dx, dy in [(0, 1), (1, 0), (0, -1), (-1, 0)]
Directions == <<<<0, 1>>, <<1, 0>>, <<0, -1>>, <<-1, 0>>>>

\* The nested dfs(point) of traverse_pattern_dfs; st holds the two locals
\* it shares with its caller, visited and traversal.  DfsNeighbors is its
\* for loop from direction k on.
RECURSIVE dfs(_, _, _), DfsNeighbors(_, _, _, _)
dfs(self, point, st) ==
    IF <<point.x, point.y>> \in st.visited THEN st
    ELSE IF ~InBounds(self, point.x, point.y) THEN st
    ELSE IF self.grid[<<point.x, point.y>>] = 0 THEN st
    ELSE DfsNeighbors(self, point, 1,
                      [visited |-> st.visited \cup {<<point.x, point.y>>},
                       traversal |-> Append(st.traversal, point)])

DfsNeighbors(self, point, k, st) ==
    IF k > Len(Directions) THEN st
    ELSE DfsNeighbors(self, point, k + 1,
                      dfs(self, GridPoint(point.x + Directions[k][1],
                                          point.y + Directions[k][2]), st))

\* The visits told from the last one back to the first.
traverse_pattern_dfs_Backwards(self, start_point) ==
    LET t == dfs(self, GridPoint(start_point[1], start_point[2]),
                 [visited |-> {}, traversal |-> <<>>]).traversal
    IN  Returned([i \in 1..Len(t) |-> t[Len(t) + 1 - i]])

\* traverse_pattern_dfs: the list of points in the order of the visits, for a
\* component the interpreter's call stack can hold (the frames of dfs are
\* modelled one by one further down).
traverse_pattern_dfs(self, start_point) ==
    Returned(dfs(self, GridPoint(start_point[1], start_point[2]),
                 [visited |-> {}, traversal |-> <<>>]).traversal)

\* The neighbours of point that are not in visited, in the loop's order.
RECURSIVE UnvisitedNeighbors(_, _, _)
UnvisitedNeighbors(point, visited, k) ==
    IF k > Len(Directions) THEN <<>>
    ELSE LET neighbor == GridPoint(point.x + Directions[k][1], point.y + Directions[k][2])
         IN  (IF <<neighbor.x, neighbor.y>> \notin visited THEN <<neighbor>> ELSE <<>>)
                 \o UnvisitedNeighbors(point, visited, k + 1)

\* The while loop with the queue read from its right end, as a stack.
RECURSIVE BfsQueueLoop_Lifo(_, _, _, _)
BfsQueueLoop_Lifo(self, queue, visited, traversal) ==
    IF queue = <<>> THEN traversal
    ELSE LET point == queue[Len(queue)]
             rest == SubSeq(queue, 1, Len(queue) - 1)
         IN  IF \/ <<point.x, point.y>> \in visited
                \/ ~InBounds(self, point.x, point.y)
                \/ self.grid[<<point.x, point.y>>] = 0
             THEN BfsQueueLoop_Lifo(self, rest, visited, traversal)
             ELSE LET seen == visited \cup {<<point.x, point.y>>}
                  IN  BfsQueueLoop_Lifo(self, rest \o UnvisitedNeighbors(point, seen, 1),
                                        seen, Append(traversal, point))

\* The while loop of traverse_pattern_bfs.
RECURSIVE BfsQueueLoop(_, _, _, _)
BfsQueueLoop(self, queue, visited, traversal) ==
    IF queue = <<>> THEN traversal
    ELSE LET point == Head(queue)
         IN  IF \/ <<point.x, point.y>> \in visited
                \/ ~InBounds(self, point.x, point.y)
                \/ self.grid[<<point.x, point.y>>] = 0
             THEN BfsQueueLoop(self, Tail(queue), visited, traversal)
             ELSE LET seen == visited \cup {<<point.x, point.y>>}
                  IN  BfsQueueLoop(self, Tail(queue) \o UnvisitedNeighbors(point, seen, 1),
                                   seen, Append(traversal, point))

\* traverse_pattern_bfs: the list of points in the order of the visits.
traverse_pattern_bfs(self, start_point) ==
    Returned(BfsQueueLoop(self, <<GridPoint(start_point[1], start_point[2])>>, {}, <<>>))

\* get_bounding_box: None for a name that is not stored and for an empty
\* pattern, else (min_x, min_y, max_x, max_y).
get_bounding_box(self, pattern_name) ==
    LET pattern == get_pattern(self, pattern_name)
        xs == {p.x : p \in pattern.value}
        ys == {p.y : p \in pattern.value}
    IN  IF pattern.none \/ pattern.value = {} THEN Returned(None)
        ELSE Returned(Some(<<SetMin(xs), SetMin(ys), SetMax(xs), SetMax(ys)>>))

\* A ring whose top and bottom edges stop short of the corners.
SquareRing_OpenCorners(center_x, center_y, distance) ==
    {<<x, center_y - distance>> : x \in (center_x - distance + 1)..(center_x + distance - 1)}
        \cup {<<x, center_y + distance>> : x \in (center_x - distance + 1)..(center_x + distance - 1)}
        \cup {<<center_x - distance, y>> : y \in (center_y - distance + 1)..(center_y + distance - 1)}
        \cup {<<center_x + distance, y>> : y \in (center_y - distance + 1)..(center_y + distance - 1)}

\* One pass of the loop of create_concentric_squares: the top and the
\* bottom edge with their corners, the left and the right edge without.
SquareRing(center_x, center_y, distance) ==
    {<<x, center_y - distance>> : x \in (center_x - distance)..(center_x + distance)}
        \cup {<<x, center_y + distance>> : x \in (center_x - distance)..(center_x + distance)}
        \cup {<<center_x - distance, y>> : y \in (center_y - distance + 1)..(center_y + distance - 1)}
        \cup {<<center_x + distance, y>> : y \in (center_y - distance + 1)..(center_y + distance - 1)}

\* range(1, min(num_squares + 1, max_distance)) with
\* max_distance = max(center_x, center_y)
SquareDistances(self, num_squares) ==
    1..(Min2(num_squares + 1, Max2(self.width \div 2, self.height \div 2)) - 1)

\* create_concentric_squares: the new value of self.patterns.  The order
\* and the repeats of the list it hands to add_pattern are lost in the set
\* add_pattern makes of it.
create_concentric_squares(self, num_squares, pattern_name) ==
    (pattern_name :>
         {GridPoint(t[1], t[2]) :
             t \in UNION {SquareRing(self.width \div 2, self.height \div 2, distance) :
                             distance \in SquareDistances(self, num_squares)}})
        @@ self.patterns

\* Seven of the eight points: (-y, x) is left out.
EightPoints_SevenWay(self, center_x, center_y, x, y) ==
    {c \in {<<center_x + o[1], center_y + o[2]>> :
                o \in {<<x, y>>, <<y, x>>, <<-x, y>>,
                       <<-x, -y>>, <<-y, -x>>, <<x, -y>>, <<y, -x>>}} :
        InBounds(self, c[1], c[2])}

\* The eight points _bresenham_circle makes of (x, y), those inside the grid.
EightPoints(self, center_x, center_y, x, y) ==
    {c \in {<<center_x + o[1], center_y + o[2]>> :
                o \in {<<x, y>>, <<y, x>>, <<-x, y>>, <<-y, x>>,
                       <<-x, -y>>, <<-y, -x>>, <<x, -y>>, <<y, -x>>}} :
        InBounds(self, c[1], c[2])}

\* The while loop of _bresenham_circle.
RECURSIVE BresenhamLoop(_, _, _, _, _, _, _)
BresenhamLoop(self, center_x, center_y, x, y, d, points) ==
    IF x > y THEN points
    ELSE BresenhamLoop(self, center_x, center_y, x + 1,
                       IF d < 0 THEN y ELSE y - 1,
                       IF d < 0 THEN d + 4 * x + 6 ELSE d + 4 * (x - y) + 10,
                       points \cup EightPoints(self, center_x, center_y, x, y))

_bresenham_circle(self, center_x, center_y, radius) ==
    BresenhamLoop(self, center_x, center_y, 0, radius, 3 - 2 * radius, {})

\* create_concentric_circles: the new value of self.patterns.
create_concentric_circles(self, num_circles, pattern_name) ==
    (pattern_name :>
         {GridPoint(t[1], t[2]) :
             t \in UNION {_bresenham_circle(self, self.width \div 2, self.height \div 2, radius) :
                             radius \in 1..num_circles}})
        @@ self.patterns

----------------------------------------------------------------------------
(* validator.py: Point and _validate_points on points a hair apart *)

\* Here a coordinate is a whole number k that stands for k * 1e-11, so that
\* 1e-10 (the last decimal round(x, 10) keeps) is 10 and 1e-9 (the bound of
\* __eq__) is 100.

\* round(x, 10): the nearest multiple of 1e-10.  The coordinates used are
\* never half way between two of them.
Round10(k) == 10 * ((k + 5) \div 10)

\* Point.__hash__: hash((round(x, 10), round(y, 10))).
PointHash_E11(p) == <<Round10(p.x), Round10(p.y)>>

\* Point.__eq__: abs(x - other.x) < 1e-9 and abs(y - other.y) < 1e-9.
PointEq_E11(p, q) == Abs(p.x - q.x) < 100 /\ Abs(p.y - q.y) < 100

\* `point in unique_points` on a Python set: an element with the same hash
\* that compares equal.
InPointSet_E11(p, S) == \E q \in S : PointHash_E11(q) = PointHash_E11(p) /\ PointEq_E11(q, p)

\* The loop of _validate_points: i is the 1-based position.
RECURSIVE DupScan_E11(_, _, _, _)
DupScan_E11(points, i, unique, duplicates) ==
    IF i > Len(points) THEN [unique |-> unique, duplicates |-> duplicates]
    ELSE IF InPointSet_E11(points[i], unique)
         THEN DupScan_E11(points, i + 1, unique, Append(duplicates, i - 1))
         ELSE DupScan_E11(points, i + 1, unique \cup {points[i]}, duplicates)

_validate_points_E11(st, points) ==
    IF points = <<>>
    THEN AddError(st, Msg("Pattern must contain at least one point", <<>>))
    ELSE LET st1 == IF Len(points) > PerfAdvisoryPoints
                    THEN AddWarning(st, Msg("Pattern contains {} points, may affect performance",
                                            <<Len(points)>>))
                    ELSE st
             scan == DupScan_E11(points, 1, {}, <<>>)
             st2 == IF scan.duplicates # <<>>
                    THEN AddWarning(st1, Msg("Found {} duplicate point(s) at indices: {}",
                                             <<Len(scan.duplicates)>> \o scan.duplicates))
                    ELSE st1
         IN  SetMeta(SetMeta(st2, "total_points", Len(points)),
                     "unique_points", Cardinality(scan.unique))

\* validate_pattern(points, connections) on such points.  The checks after
\* _validate_points read the coordinates only through min, max, differences
\* and their ratio, which are the same in every unit.
validate_pattern_E11(st, points, connections) ==
    LET s0 == ResetFindings(st)
        s1 == _validate_points_E11(s0, points)
        s2 == _validate_connections(s1, points, connections)
        s3 == _validate_geometric_constraints(s2, points)
        s4 == _validate_connectivity(s3, points, connections)
    IN  [st |-> s4,
         result |-> [is_valid |-> Len(s4.heap[s4.self.errors]) = 0,
                     errors |-> s4.self.errors,
                     warnings |-> s4.self.warnings,
                     metadata |-> s4.self.metadata]]

----------------------------------------------------------------------------
(* The calls the model makes on one PatternValidator and on PatternAnalyzer *)

\* Argument values.  Coordinates are doubled: (0,0), (1,0), (0.5,1) is the
\* triangle of validator.py's own example; (2,0) makes a line with the first
\* two; (0,22) stretches the bounding box past an aspect ratio of 10.
PointPool == {Point(0, 0), Point(2, 0), Point(1, 2), Point(4, 0), Point(0, 44)}

\* The edges of a triangle, a self-loop and a negative index.  An index is
\* past the end whenever the point list is shorter than the index asks.
ConnPool == {<<0, 1>>, <<1, 2>>, <<2, 0>>, <<0, 0>>, <<-1, 1>>}

PointLists == SeqsUpTo(PointPool, MaxPoints)

ConnLists == SeqsUpTo(ConnPool, MaxConns)

\* Points for check_symmetry: the lattice {-1, 0, 1} x {-1, 0, 1}.
SymPool == {Point(x, y) : x \in {-2, 0, 2}, y \in {-2, 0, 2}}

SymLists == SeqsUpTo(SymPool, MaxPoints + 1)

\* Arguments for a run of several validate_pattern calls.
CallPointLists ==
    {<<>>, <<Point(0, 0)>>, <<Point(0, 0), Point(2, 0)>>, <<Point(0, 0), Point(0, 0)>>,
     <<Point(0, 0), Point(2, 0), Point(1, 2)>>}

CallConnLists ==
    {<<>>, <<<<0, 1>>>>, <<<<0, 1>>, <<0, 1>>>>, <<<<0, 1>>, <<0, 0>>>>,
     <<<<0, 1>>, <<1, 2>>>>, <<<<0, 5>>>>}

ValidatePattern(points, connections) ==
    LET out == validate_pattern([self |-> validator, heap |-> heap], points, connections)
    IN  /\ validator' = out.st.self
        /\ heap' = out.st.heap
        /\ log' = Append(log, [op |-> "validate_pattern", points |-> points,
                               connections |-> connections, result |-> out.result])
        /\ UNCHANGED gridVars

CheckSymmetry(points) ==
    /\ log' = Append(log, [op |-> "check_symmetry", points |-> points,
                           connections |-> <<>>,
                           result |-> check_symmetry(validator, points)])
    /\ UNCHANGED <<validator, heap>>
    /\ UNCHANGED gridVars

CalculatePatternComplexity(points, connections) ==
    /\ log' = Append(log, [op |-> "calculate_pattern_complexity", points |-> points,
                           connections |-> connections,
                           result |-> calculate_pattern_complexity(points, connections)])
    /\ UNCHANGED <<validator, heap>>
    /\ UNCHANGED gridVars

NoCall == [op |-> "none", points |-> <<>>, connections |-> <<>>]

Call(op, points, connections) == [op |-> op, points |-> points, connections |-> connections]

\* PatternValidator(): tolerance 1e-6, two empty lists and an empty dict.
InitValidator ==
    /\ validator = [tolerance_inv |-> DefaultToleranceInv,
                    errors |-> 1, warnings |-> 2, metadata |-> 3]
    /\ heap = (1 :> <<>>) @@ (2 :> <<>>) @@ (3 :> <<>>)
    /\ log = <<>>

\* KolamGenerator(width, height): a grid of zeros and no pattern.
KolamGenerator_init(w, h) ==
    /\ width = w
    /\ height = h
    /\ grid = _initialize_grid(w, h)
    /\ patterns = <<>>
    /\ ncalls = 0
    /\ ret = [op |-> "__init__", name |-> "", args |-> <<w, h>>, out |-> Returned({})]

\* The generator that stands by while the validator is called.
InitGrid == KolamGenerator_init(3, 3)

\* One call on a new validator (or on the analyzer), with any arguments.
Init ==
    /\ InitValidator
    /\ InitGrid
    /\ \/ \E p \in PointLists, c \in ConnLists : pending = Call("validate_pattern", p, c)
       \/ \E p \in SymLists : pending = Call("check_symmetry", p, <<>>)
       \/ \E p \in SeqsUpTo({Point(0, 0)}, MaxPoints), c \in ConnLists :
              pending = Call("calculate_pattern_complexity", p, c)

ValidateOnce ==
    /\ pending.op = "validate_pattern"
    /\ ValidatePattern(pending.points, pending.connections)
    /\ pending' = NoCall

SymmetryOnce ==
    /\ pending.op = "check_symmetry"
    /\ CheckSymmetry(pending.points)
    /\ pending' = NoCall

ComplexityOnce ==
    /\ pending.op = "calculate_pattern_complexity"
    /\ CalculatePatternComplexity(pending.points, pending.connections)
    /\ pending' = NoCall

Next == ValidateOnce \/ SymmetryOnce \/ ComplexityOnce

Spec == Init /\ [][Next]_vars

\* A run of validate_pattern calls on one validator.
InitCalls == InitValidator /\ InitGrid /\ pending = NoCall

ValidateAgain ==
    /\ Len(log) < MaxCalls
    /\ \E points \in CallPointLists, connections \in CallConnLists :
           ValidatePattern(points, connections)
    /\ UNCHANGED pending

NextCalls == ValidateAgain

SpecCalls == InitCalls /\ [][NextCalls]_vars

----------------------------------------------------------------------------
(* The calls the model makes on one KolamGenerator *)

\* Grids: square and not, with even and odd sides.
GridSizes == {<<3, 3>>, <<2, 3>>, <<3, 2>>}

\* Names that get registered, and names that calls ask for.
StoredNames == {"a", "b"}

CallNames == StoredNames \cup {"missing"}

\* Point lists for add_pattern: one with a repeat, one with points outside
\* every grid, an arch with a dot under it, and the empty one.
GridPointLists ==
    {<<>>, <<<<0, 0>>>>, <<<<0, 0>>, <<1, 0>>, <<0, 0>>>>, <<<<1, 1>>, <<2, 0>>>>,
     <<<<-1, 0>>, <<3, 3>>, <<0, 1>>>>,
     <<<<0, 1>>, <<0, 2>>, <<1, 2>>, <<2, 2>>, <<2, 1>>, <<1, 0>>>>}

DrawValues == {1, 2}

Angles == {0, 90, 180, 270, 360}

Offsets == {<<1, 0>>, <<0, -1>>, <<-3, 2>>}

ScaleFactors == {-1, 0, 1, 2, 3}

\* The generator as the methods see it.
Self == [width |-> width, height |-> height, grid |-> grid, patterns |-> patterns]

\* A call that reads the generator and returns or raises.
Reads(op, pattern_name, args, out) ==
    /\ ncalls' = ncalls + 1
    /\ ret' = [op |-> op, name |-> pattern_name, args |-> args, out |-> out]
    /\ UNCHANGED <<width, height, grid, patterns>>
    /\ UNCHANGED validatorVars

AddPattern ==
    \E pattern_name \in StoredNames, points \in GridPointLists :
        /\ ncalls < MaxGridCalls
        /\ ncalls' = ncalls + 1
        /\ patterns' = add_pattern(Self, pattern_name, points)
        /\ ret' = [op |-> "add_pattern", name |-> pattern_name, args |-> <<points>>,
                   out |-> Returned({})]
        /\ UNCHANGED <<width, height, grid>>
        /\ UNCHANGED validatorVars

DrawPattern ==
    \E pattern_name \in CallNames, value \in DrawValues :
        LET r == draw_pattern(Self, pattern_name, value)
        IN  /\ ncalls < MaxGridCalls
            /\ ncalls' = ncalls + 1
            /\ grid' = r.grid
            /\ ret' = [op |-> "draw_pattern", name |-> pattern_name, args |-> <<value>>,
                       out |-> r.out]
            /\ UNCHANGED <<width, height, patterns>>
            /\ UNCHANGED validatorVars

ClearGrid ==
    /\ ncalls < MaxGridCalls
    /\ ncalls' = ncalls + 1
    /\ grid' = _initialize_grid(width, height)
    /\ ret' = [op |-> "clear_grid", name |-> "", args |-> <<>>, out |-> Returned({})]
    /\ UNCHANGED <<width, height, patterns>>
    /\ UNCHANGED validatorVars

ApplyHorizontalSymmetry ==
    \E pattern_name \in CallNames :
        /\ ncalls < MaxGridCalls
        /\ Reads("apply_horizontal_symmetry", pattern_name, <<>>,
                 apply_horizontal_symmetry(Self, pattern_name))

ApplyVerticalSymmetry ==
    \E pattern_name \in CallNames :
        /\ ncalls < MaxGridCalls
        /\ Reads("apply_vertical_symmetry", pattern_name, <<>>,
                 apply_vertical_symmetry(Self, pattern_name))

ApplyRotationalSymmetry ==
    \E pattern_name \in CallNames, angle \in Angles :
        /\ ncalls < MaxGridCalls
        /\ Reads("apply_rotational_symmetry", pattern_name, <<angle>>,
                 apply_rotational_symmetry(Self, pattern_name, angle))

ApplyDiagonalSymmetry ==
    \E pattern_name \in CallNames, main_diagonal \in BOOLEAN :
        /\ ncalls < MaxGridCalls
        /\ Reads("apply_diagonal_symmetry", pattern_name, <<main_diagonal>>,
                 apply_diagonal_symmetry(Self, pattern_name, main_diagonal))

TranslatePattern ==
    \E pattern_name \in CallNames, d \in Offsets :
        /\ ncalls < MaxGridCalls
        /\ Reads("translate_pattern", pattern_name, d,
                 translate_pattern(Self, pattern_name, d[1], d[2]))

ScalePattern ==
    \E pattern_name \in CallNames, scale_factor \in ScaleFactors :
        /\ ncalls < MaxGridCalls
        /\ Reads("scale_pattern", pattern_name, <<scale_factor>>,
                 scale_pattern(Self, pattern_name, scale_factor))

\* Name lists and offsets arguments for compose_patterns: no offsets, and
\* offset lists shorter than, as long as and longer than the name list.
ComposeNames ==
    {<<>>, <<"a">>, <<"missing">>, <<"a", "b">>, <<"b", "a">>, <<"a", "missing">>,
     <<"missing", "a">>}

\* offsets=None: the Optional with no list in it.
NoOffsets == [none |-> TRUE, value |-> <<>>]

ComposeOffsets ==
    {NoOffsets, Some(<<>>), Some(<<<<0, 0>>>>), Some(<<<<1, 0>>>>),
     Some(<<<<0, 0>>, <<1, 0>>>>), Some(<<<<1, 0>>, <<0, 0>>>>),
     Some(<<<<0, 0>>, <<0, 0>>, <<1, 0>>>>)}

ComposePatterns ==
    \E pattern_names \in ComposeNames, offsets \in ComposeOffsets :
        /\ ncalls < MaxGridCalls
        /\ Reads("compose_patterns", "", <<pattern_names, offsets>>,
                 compose_patterns(Self, pattern_names, offsets))

\* Start cells for the traversals, inside and outside the grids.
StartPoints == {<<0, 0>>, <<1, 2>>, <<1, 0>>, <<2, 1>>, <<-1, 0>>, <<0, 3>>}

TraversePatternDfs ==
    \E start_point \in StartPoints :
        /\ ncalls < MaxGridCalls
        /\ Reads("traverse_pattern_dfs", "", <<start_point>>,
                 traverse_pattern_dfs(Self, start_point))

TraversePatternBfs ==
    \E start_point \in StartPoints :
        /\ ncalls < MaxGridCalls
        /\ Reads("traverse_pattern_bfs", "", <<start_point>>,
                 traverse_pattern_bfs(Self, start_point))

\* Numbers of rings asked of the two generators.
RingCounts == 0..MaxRings

GetBoundingBox ==
    \E pattern_name \in CallNames :
        /\ ncalls < MaxGridCalls
        /\ Reads("get_bounding_box", pattern_name, <<>>,
                 get_bounding_box(Self, pattern_name))

CreateConcentricSquares ==
    \E num_squares \in RingCounts, pattern_name \in StoredNames :
        /\ ncalls < MaxGridCalls
        /\ ncalls' = ncalls + 1
        /\ patterns' = create_concentric_squares(Self, num_squares, pattern_name)
        /\ ret' = [op |-> "create_concentric_squares", name |-> pattern_name,
                   args |-> <<num_squares>>, out |-> Returned({})]
        /\ UNCHANGED <<width, height, grid>>
        /\ UNCHANGED validatorVars

CreateConcentricCircles ==
    \E num_circles \in RingCounts, pattern_name \in StoredNames :
        /\ ncalls < MaxGridCalls
        /\ ncalls' = ncalls + 1
        /\ patterns' = create_concentric_circles(Self, num_circles, pattern_name)
        /\ ret' = [op |-> "create_concentric_circles", name |-> pattern_name,
                   args |-> <<num_circles>>, out |-> Returned({})]
        /\ UNCHANGED <<width, height, grid>>
        /\ UNCHANGED validatorVars

\* A new generator of any of the sizes, next to a validator that stays idle.
InitGridAny ==
    /\ InitValidator
    /\ pending = NoCall
    /\ \E s \in GridSizes : KolamGenerator_init(s[1], s[2])

NextGrid ==
    \/ AddPattern
    \/ DrawPattern
    \/ ClearGrid
    \/ ApplyHorizontalSymmetry
    \/ ApplyVerticalSymmetry
    \/ ApplyRotationalSymmetry
    \/ ApplyDiagonalSymmetry
    \/ TranslatePattern
    \/ ScalePattern
    \/ ComposePatterns
    \/ TraversePatternDfs
    \/ TraversePatternBfs
    \/ GetBoundingBox
    \/ CreateConcentricSquares
    \/ CreateConcentricCircles

SpecGrid == InitGridAny /\ [][NextGrid]_vars

----------------------------------------------------------------------------
(* A run of add_pattern, draw_pattern and clear_grid calls on one           *)
(* KolamGenerator, with every call kept in the log                          *)

DrawnPointLists ==
    {<<<<0, 0>>, <<1, 0>>, <<0, 0>>>>, <<<<1, 1>>, <<2, 0>>>>, <<<<-1, 0>>, <<3, 3>>, <<0, 1>>>>}

\* The call joins the log.
Recorded(op, pattern_name, args, out) ==
    /\ log' = Append(log, [op |-> op, name |-> pattern_name, args |-> args, out |-> out])
    /\ ret' = [op |-> op, name |-> pattern_name, args |-> args, out |-> out]
    /\ ncalls' = ncalls + 1
    /\ UNCHANGED <<validator, heap, pending, width, height>>

RecordedAddPattern ==
    \E pattern_name \in StoredNames, points \in DrawnPointLists :
        /\ Len(log) < MaxDrawCalls
        /\ patterns' = add_pattern(Self, pattern_name, points)
        /\ UNCHANGED grid
        /\ Recorded("add_pattern", pattern_name, <<points>>, Returned({}))

RecordedDrawPattern ==
    \E pattern_name \in CallNames, value \in DrawValues :
        LET r == draw_pattern(Self, pattern_name, value)
        IN  /\ Len(log) < MaxDrawCalls
            /\ grid' = r.grid
            /\ UNCHANGED patterns
            /\ Recorded("draw_pattern", pattern_name, <<value>>, r.out)

RecordedClearGrid ==
    /\ Len(log) < MaxDrawCalls
    /\ grid' = _initialize_grid(width, height)
    /\ UNCHANGED patterns
    /\ Recorded("clear_grid", "", <<>>, Returned({}))

NextDraw == RecordedAddPattern \/ RecordedDrawPattern \/ RecordedClearGrid

SpecDraw == InitGridAny /\ [][NextDraw]_vars

----------------------------------------------------------------------------
(* The two generators on larger grids *)

\* The 21 x 21 grid of the module's own example, smaller odd and even
\* squares, and two grids that are not square.
ShapeSizes == {<<21, 21>>, <<5, 5>>, <<4, 4>>, <<7, 3>>, <<6, 8>>}

InitShapes ==
    /\ InitValidator
    /\ pending = NoCall
    /\ \E s \in ShapeSizes : KolamGenerator_init(s[1], s[2])

NextShapes == CreateConcentricSquares \/ CreateConcentricCircles \/ GetBoundingBox

SpecShapes == InitShapes /\ [][NextShapes]_vars

----------------------------------------------------------------------------
(* Scaling on grids that hold whole blocks *)

\* Grids wide enough for the 2 x 2 and 3 x 3 blocks of two points side by
\* side, and one that clips them.
ScaleSizes == {<<4, 4>>, <<6, 3>>, <<2, 5>>}

\* Point lists for the patterns to scale: neighbours, a 2 x 2 square, a
\* repeated point, a negative coordinate and a point far outside.
ScalePointLists ==
    {<<>>, <<<<0, 0>>, <<1, 0>>>>, <<<<0, 0>>, <<1, 1>>, <<0, 0>>>>,
     <<<<0, 0>>, <<1, 0>>, <<0, 1>>, <<1, 1>>>>, <<<<-1, 0>>, <<0, 0>>>>,
     <<<<2, 1>>>>, <<<<1, 0>>, <<5, 5>>>>}

InitScale ==
    /\ InitValidator
    /\ pending = NoCall
    /\ \E s \in ScaleSizes : KolamGenerator_init(s[1], s[2])

AddPatternToScale ==
    \E pattern_name \in StoredNames, points \in ScalePointLists :
        /\ ncalls < MaxGridCalls
        /\ ncalls' = ncalls + 1
        /\ patterns' = add_pattern(Self, pattern_name, points)
        /\ ret' = [op |-> "add_pattern", name |-> pattern_name, args |-> <<points>>,
                   out |-> Returned({})]
        /\ UNCHANGED <<width, height, grid>>
        /\ UNCHANGED validatorVars

NextScale == AddPatternToScale \/ ScalePattern

SpecScale == InitScale /\ [][NextScale]_vars

----------------------------------------------------------------------------
(* validate_pattern on points a hair apart *)

\* Coordinates in units of 1e-11: 0, 4e-11, 4e-10, 9.6e-10 and 2e-8.  The
\* first four are within 1e-9 of each other; round(x, 10) takes the first
\* two to 0, the third to 4e-10 and the fourth to 1e-9.
NearPool == {Point(0, 0), Point(4, 0), Point(40, 0), Point(96, 0), Point(2000, 0), Point(0, 40)}

NearPointLists == SeqsUpTo(NearPool, MaxPoints)

NearConnLists == {<<>>, <<<<0, 1>>>>}

InitNear ==
    /\ InitValidator
    /\ InitGrid
    /\ \E p \in NearPointLists, c \in NearConnLists : pending = Call("validate_pattern", p, c)

ValidateNearOnce ==
    /\ pending.op = "validate_pattern"
    /\ LET out == validate_pattern_E11([self |-> validator, heap |-> heap],
                                       pending.points, pending.connections)
       IN  /\ validator' = out.st.self
           /\ heap' = out.st.heap
           /\ log' = Append(log, [op |-> "validate_pattern", points |-> pending.points,
                                  connections |-> pending.connections, result |-> out.result])
    /\ pending' = NoCall
    /\ UNCHANGED gridVars

NextNear == ValidateNearOnce

SpecNear == InitNear /\ [][NextNear]_vars

----------------------------------------------------------------------------
(* One call on PatternAnalyzer *)

\* Point lists for the analyzer: the empty list, one point, repeats and the
\* triangle's corners in any order.
AnalyzerPointLists == SeqsUpTo({Point(0, 0), Point(2, 0), Point(1, 2)}, MaxPoints)

ExtractPatternFeatures(points, connections) ==
    /\ log' = Append(log, [op |-> "extract_pattern_features", points |-> points,
                           connections |-> connections,
                           result |-> extract_pattern_features(points, connections)])
    /\ UNCHANGED <<validator, heap>>
    /\ UNCHANGED gridVars

InitAnalyzer ==
    /\ InitValidator
    /\ InitGrid
    /\ \/ \E p \in AnalyzerPointLists, c \in ConnLists :
              pending = Call("extract_pattern_features", p, c)
       \/ \E p \in SeqsUpTo({Point(0, 0)}, MaxPoints), c \in ConnLists :
              pending = Call("calculate_pattern_complexity", p, c)

ExtractOnce ==
    /\ pending.op = "extract_pattern_features"
    /\ ExtractPatternFeatures(pending.points, pending.connections)
    /\ pending' = NoCall

NextAnalyzer == ExtractOnce \/ ComplexityOnce

SpecAnalyzer == InitAnalyzer /\ [][NextAnalyzer]_vars

----------------------------------------------------------------------------
(* traverse_pattern_dfs frame by frame, on grids of about a thousand cells *)

\* The interpreter's limit on the depth of the call stack: CPython raises
\* RecursionError for a call that would make the stack deeper than
\* sys.getrecursionlimit(), which is 1000 unless the program changes it
\* (kolam_generator.py does not).
RecursionLimit == 1000

\* The frames under the first dfs frame, at the least: the caller of
\* traverse_pattern_dfs and traverse_pattern_dfs itself.
CallerFrames == 2

\* A call ending with RecursionError.
RecursionError ==
    [status |-> "RecursionError", value |-> <<>>,
     message |-> Msg("maximum recursion depth exceeded", <<>>)]

\* A 32 x 32 grid, one row less, and a small one.
DeepSizes == {<<32, 32>>, <<31, 32>>, <<2, 2>>}

DeepStartPoints == {<<0, 0>>, <<-1, 0>>}

\* Every cell of a w x h grid, as the (x, y) list add_pattern takes.
EveryCell(w, h) == [i \in 1..(w * h) |-> <<(i - 1) % w, (i - 1) \div w>>]

InitDeep ==
    /\ InitValidator
    /\ pending = NoCall
    /\ \E s \in DeepSizes : KolamGenerator_init(s[1], s[2])

\* add_pattern("a", every cell of the grid)
AddPatternEveryCell ==
    /\ pending = NoCall
    /\ ncalls < MaxGridCalls
    /\ ncalls' = ncalls + 1
    /\ patterns' = add_pattern(Self, "a", EveryCell(width, height))
    /\ ret' = [op |-> "add_pattern", name |-> "a", args |-> <<>>, out |-> Returned({})]
    /\ UNCHANGED <<width, height, grid>>
    /\ UNCHANGED validatorVars

\* draw_pattern("a")
DrawPatternEveryCell ==
    LET r == draw_pattern(Self, "a", 1)
    IN  /\ pending = NoCall
        /\ ncalls < MaxGridCalls
        /\ ncalls' = ncalls + 1
        /\ grid' = r.grid
        /\ ret' = [op |-> "draw_pattern", name |-> "a", args |-> <<1>>, out |-> r.out]
        /\ UNCHANGED <<width, height, patterns>>
        /\ UNCHANGED validatorVars

\* The dfs frame on top of the stack of the call in flight, which pending
\* holds: the start point, the frames of dfs (each with its point and k,
\* the number of neighbours it has called dfs for, 0 before the tests at
\* its head), and the locals visited and traversal.
TopFrame == pending.frames[Len(pending.frames)]

Running == pending.op = "traverse_pattern_dfs"

PopFrame == [pending EXCEPT !.frames = SubSeq(@, 1, Len(@) - 1)]

\* traverse_pattern_dfs(start_point) up to its call dfs(Point(...)).
DfsBegin ==
    \E start_point \in DeepStartPoints :
        /\ pending = NoCall
        /\ ncalls < MaxGridCalls
        /\ pending' = [op |-> "traverse_pattern_dfs", start_point |-> start_point,
                       frames |-> <<[point |-> GridPoint(start_point[1], start_point[2]),
                                     k |-> 0]>>,
                       visited |-> {}, traversal |-> <<>>]
        /\ UNCHANGED <<validator, heap, log>>
        /\ UNCHANGED gridVars

\* The three tests at the head of dfs, in their order: the point is in
\* visited, or outside the grid, or its cell holds 0.
EndsBranch(point) ==
    IF <<point.x, point.y>> \in pending.visited THEN TRUE
    ELSE IF ~InBounds(Self, point.x, point.y) THEN TRUE
    ELSE grid[<<point.x, point.y>>] = 0

\* One of the tests holds: the frame ends.
DfsSkip ==
    /\ Running /\ pending.frames # <<>>
    /\ TopFrame.k = 0
    /\ EndsBranch(TopFrame.point)
    /\ pending' = PopFrame
    /\ UNCHANGED <<validator, heap, log>>
    /\ UNCHANGED gridVars

\* visited.add(...), traversal.append(point)
DfsVisit ==
    /\ Running /\ pending.frames # <<>>
    /\ TopFrame.k = 0
    /\ ~EndsBranch(TopFrame.point)
    /\ LET point == TopFrame.point
       IN  pending' = [pending EXCEPT !.visited = @ \cup {<<point.x, point.y>>},
                                     !.traversal = Append(@, point),
                                     !.frames[Len(pending.frames)].k = 1]
    /\ UNCHANGED <<validator, heap, log>>
    /\ UNCHANGED gridVars

\* The stack is too deep for one more call from the top frame.
StackFull == CallerFrames + Len(pending.frames) + 1 > RecursionLimit

\* dfs(Point(point.x + dx, point.y + dy)) for the next direction.
DfsRecurse ==
    /\ Running /\ pending.frames # <<>>
    /\ TopFrame.k \in DOMAIN Directions
    /\ ~StackFull
    /\ LET point == TopFrame.point
           d == Directions[TopFrame.k]
       IN  pending' = [pending EXCEPT
                           !.frames = Append([@ EXCEPT ![Len(@)].k = TopFrame.k + 1],
                                             [point |-> GridPoint(point.x + d[1], point.y + d[2]),
                                              k |-> 0])]
    /\ UNCHANGED <<validator, heap, log>>
    /\ UNCHANGED gridVars

\* The same call with the stack at the limit: RecursionError, which no frame
\* catches, ends traverse_pattern_dfs.
DfsRecursionError ==
    /\ Running /\ pending.frames # <<>>
    /\ TopFrame.k \in DOMAIN Directions
    /\ StackFull
    /\ pending' = NoCall
    /\ ncalls' = ncalls + 1
    /\ ret' = [op |-> "traverse_pattern_dfs", name |-> "", args |-> <<pending.start_point>>,
               out |-> RecursionError]
    /\ UNCHANGED <<width, height, grid, patterns>>
    /\ UNCHANGED <<validator, heap, log>>

\* The for loop of dfs is over: the frame ends.
DfsLoopDone ==
    /\ Running /\ pending.frames # <<>>
    /\ TopFrame.k > Len(Directions)
    /\ pending' = PopFrame
    /\ UNCHANGED <<validator, heap, log>>
    /\ UNCHANGED gridVars

\* return traversal
DfsReturn ==
    /\ Running /\ pending.frames = <<>>
    /\ pending' = NoCall
    /\ ncalls' = ncalls + 1
    /\ ret' = [op |-> "traverse_pattern_dfs", name |-> "", args |-> <<pending.start_point>>,
               out |-> Returned(pending.traversal)]
    /\ UNCHANGED <<width, height, grid, patterns>>
    /\ UNCHANGED <<validator, heap, log>>

NextDeep ==
    \/ AddPatternEveryCell
    \/ DrawPatternEveryCell
    \/ DfsBegin
    \/ DfsSkip
    \/ DfsVisit
    \/ DfsRecurse
    \/ DfsRecursionError
    \/ DfsLoopDone
    \/ DfsReturn

SpecDeep == InitDeep /\ [][NextDeep]_vars

----------------------------------------------------------------------------
(* One call of validate_line_continuity *)

\* Connections for validate_line_continuity: two edges of the triangle,
\* an index past the end, and negative indices near and far.
ContinuityConnPool == {<<0, 1>>, <<1, 2>>, <<0, 5>>, <<-1, 1>>, <<-4, 0>>}

\* max_gap: the default 0.1, and 1.05, between the triangle's side lengths.
MaxGaps == {[num |-> 1, den |-> 10], [num |-> 105, den |-> 100]}

InitContinuity ==
    /\ InitValidator
    /\ InitGrid
    /\ \E p \in CallPointLists, c \in SeqsUpTo(ContinuityConnPool, MaxConns), g \in MaxGaps :
           pending = [op |-> "validate_line_continuity", points |-> p, connections |-> c,
                      max_gap |-> g]

ContinuityOnce ==
    /\ pending.op = "validate_line_continuity"
    /\ log' = Append(log, [op |-> "validate_line_continuity", points |-> pending.points,
                           connections |-> pending.connections, max_gap |-> pending.max_gap,
                           result |-> validate_line_continuity(pending.points,
                                                               pending.connections,
                                                               pending.max_gap)])
    /\ pending' = NoCall
    /\ UNCHANGED <<validator, heap>>
    /\ UNCHANGED gridVars

NextContinuity == ContinuityOnce

SpecContinuity == InitContinuity /\ [][NextContinuity]_vars

----------------------------------------------------------------------------
(* Reading the log *)

CallsOf(op) == {i \in DOMAIN log : log[i].op = op}

\* A ValidationResult with its lists and its dict read from heap h.
Deref(result, h) ==
    [is_valid |-> result.is_valid, errors |-> h[result.errors],
     warnings |-> h[result.warnings], metadata |-> h[result.metadata]]

ResultOf(i) == Deref(log[i].result, heap)

IndicesOf(connections) == UNION {{connections[k][1], connections[k][2]} : k \in DOMAIN connections}

AllInRange(connections, n) == \A idx \in IndicesOf(connections) : idx \in 0..(n - 1)

HasSelfLoop(connections) == \E k \in DOMAIN connections : connections[k][1] = connections[k][2]

\* The in-range connections as undirected edges, and what they reach.
UndirectedEdges(n, connections) ==
    {e \in (0..(n - 1)) \X (0..(n - 1)) :
        \E k \in DOMAIN connections :
            connections[k] = e \/ connections[k] = <<e[2], e[1]>>}

RECURSIVE ReachableIn(_, _, _)
ReachableIn(S, edges, steps) ==
    IF steps = 0 THEN S
    ELSE ReachableIn(S \cup {e[2] : e \in {d \in edges : d[1] \in S}}, edges, steps - 1)

EveryPointReachable(n, connections) ==
    ReachableIn({0}, UndirectedEdges(n, connections), n) = 0..(n - 1)

NotConnectedMsg == Msg("Pattern is not fully connected", <<>>)

Triangle == <<Point(0, 0), Point(2, 0), Point(1, 2)>>

Line3 == <<Point(0, 0), Point(2, 0), Point(4, 0)>>

Cross == <<Point(2, 0), Point(0, 2), Point(-2, 0), Point(0, -2)>>

----------------------------------------------------------------------------
(* Claims *)

\* C1 (as claimed): every connection at position k with an index outside
\* [0, n) leaves an error naming k and that index in the result, and the
\* result is not valid.
C1_OutOfRangeIndexNamed ==
    \A i \in CallsOf("validate_pattern") :
        LET n == Len(log[i].points)
            cs == log[i].connections
        IN  \A k \in DOMAIN cs : \A idx \in {cs[k][1], cs[k][2]} :
                ~InRange(idx, n) =>
                    /\ \E e \in DOMAIN ResultOf(i).errors :
                           ResultOf(i).errors[e] =
                               Msg("Connection {}: point index {} out of range", <<k - 1, idx>>)
                    /\ ~ResultOf(i).is_valid

\* The bounding box of the arguments, computed from the coordinates.
BoxWidth(points) ==
    SetMax({points[i].x : i \in DOMAIN points}) - SetMin({points[i].x : i \in DOMAIN points})

BoxHeight(points) ==
    SetMax({points[i].y : i \in DOMAIN points}) - SetMin({points[i].y : i \in DOMAIN points})

\* The conditions C2 puts on a pattern.
WellFormedPattern(points, connections) ==
    LET n == Len(points)
        m == Len(connections)
    IN  /\ \A a, b \in DOMAIN points : a # b => points[a] # points[b]
        /\ m >= 1
        /\ AllInRange(connections, n)
        /\ ~HasSelfLoop(connections)
        /\ 2 * m <= n * (n - 1)
        /\ EveryPointReachable(n, connections)
        /\ BoxWidth(points) > 0
        /\ BoxHeight(points) > 0
        /\ 10 * BoxWidth(points) >= BoxHeight(points)
        /\ BoxWidth(points) <= 10 * BoxHeight(points)

ErrorTexts ==
    {"Pattern must contain at least one point",
     "Number of connections exceeds maximum possible",
     "Connection {}: point index {} out of range"}

\* C3: with at least 2 points and at least one connection, metadata
\* 'is_connected' is set, and is true exactly when every point index is
\* reachable from index 0 over the in-range connections taken as undirected
\* edges; a pattern that is not connected gets the warning, and the
\* connectivity check adds no error.
C3_IsConnectedIsReachability ==
    \A i \in CallsOf("validate_pattern") :
        LET n == Len(log[i].points)
            r == ResultOf(i)
        IN  (n >= 2 /\ Len(log[i].connections) >= 1) =>
                /\ "is_connected" \in DOMAIN r.metadata
                /\ r.metadata["is_connected"] = EveryPointReachable(n, log[i].connections)
                /\ (NotConnectedMsg \in Range(r.warnings)) <=> ~r.metadata["is_connected"]
                /\ \A e \in Range(r.errors) : e.text \in ErrorTexts

\* The line (0,0), (1,0), (2,0) joined by (0,1) alone has been validated:
\* not connected, a warning, and still valid.
C3_Witness ==
    \E i \in CallsOf("validate_pattern") :
        /\ log[i].points = Line3
        /\ log[i].connections = <<<<0, 1>>>>
        /\ ResultOf(i).metadata["is_connected"] = FALSE
        /\ NotConnectedMsg \in Range(ResultOf(i).warnings)
        /\ ResultOf(i).is_valid

MirrorOf(points, i, j) ==
    /\ Len(points) * (points[i].x + points[j].x) = 2 * CoordSum(points).x
    /\ points[i].y = points[j].y

MirroredByOther(points) ==
    {i \in DOMAIN points : \E j \in DOMAIN points : j # i /\ MirrorOf(points, i, j)}

MirroredByAny(points) ==
    {i \in DOMAIN points : \E j \in DOMAIN points : MirrorOf(points, i, j)}

C6_ComplexityInUnitInterval ==
    \A i \in CallsOf("calculate_pattern_complexity") :
        LET c == log[i].result
        IN  log[i].points # <<>> =>
                /\ c.status = "ok"
                /\ 0 <= c.num /\ c.num <= c.den
                /\ (c.num = 0) <=> (log[i].connections = <<>>)

\* Connection list b is list a with a self-loop in range, or a repeat of one
\* of a's connections, added at its end.
AddsLoopOrRepeat(a, b, n) ==
    /\ Len(b) = Len(a) + 1
    /\ SubSeq(b, 1, Len(a)) = a
    /\ LET c == b[Len(b)]
       IN  \/ c[1] = c[2] /\ InRange(c[1], n)
           \/ c \in Range(a)

\* C7 (as claimed): for a non-empty point list and a connection list with
\* all indices in range, adding a self-loop or a repeat of an existing
\* connection does not turn a valid result into an invalid one.
C7_LoopOrRepeatKeepsValid ==
    \A i, j \in CallsOf("validate_pattern") :
        ( /\ log[i].points # <<>>
          /\ log[j].points = log[i].points
          /\ AllInRange(log[i].connections, Len(log[i].points))
          /\ AddsLoopOrRepeat(log[i].connections, log[j].connections, Len(log[i].points))
          /\ ResultOf(i).is_valid )
        => ResultOf(j).is_valid

\* C8 (as claimed): whether or not an error was recorded, metadata holds
\* 'bounding_box' when there are at least 2 points, and 'total_connections'
\* and 'degree_stats' when there is a connection.
C8_EveryCheckContributes ==
    \A i \in CallsOf("validate_pattern") :
        LET md == ResultOf(i).metadata
        IN  /\ Len(log[i].points) >= 2 => "bounding_box" \in DOMAIN md
            /\ Len(log[i].connections) >= 1 =>
                   {"total_connections", "degree_stats"} \subseteq DOMAIN md

\* What a validator that has made no call returns for the arguments.
FreshResult(points, connections) ==
    LET out == validate_pattern(
                   [self |-> [tolerance_inv |-> DefaultToleranceInv,
                              errors |-> 1, warnings |-> 2, metadata |-> 3],
                    heap |-> (1 :> <<>>) @@ (2 :> <<>>) @@ (3 :> <<>>)],
                   points, connections)
    IN  Deref(out.result, out.st.heap)

\* C9: after any sequence of validate_pattern calls on one validator, every
\* result returned so far, read now, is what a validator that made no call
\* before returns for the same arguments: a call carries nothing over from
\* the calls before it, and the calls after it do not change its result.
C9_ResultsAreRecomputed ==
    \A i \in CallsOf("validate_pattern") :
        ResultOf(i) = FreshResult(log[i].points, log[i].connections)

\* Two calls were made: the first left an error and a warning, the second
\* was made with other arguments and came out clean.
C9_Witness ==
    /\ Len(log) >= 2
    /\ log[1].op = "validate_pattern" /\ log[2].op = "validate_pattern"
    /\ ResultOf(1).errors # <<>> /\ ResultOf(1).warnings # <<>>
    /\ ResultOf(2).errors = <<>> /\ ResultOf(2).warnings = <<>>
    /\ ResultOf(2).is_valid

\* The operations that take the name of a stored pattern.
NamedOperations ==
    {"draw_pattern", "apply_horizontal_symmetry", "apply_vertical_symmetry",
     "apply_rotational_symmetry", "apply_diagonal_symmetry", "translate_pattern",
     "scale_pattern"}

\* C10: draw_pattern, apply_horizontal_symmetry, apply_vertical_symmetry,
\* apply_rotational_symmetry, apply_diagonal_symmetry, translate_pattern and
\* scale_pattern, called with a name that is not in the registry, end with
\* the not-found ValueError for that name, return no set, and leave the grid
\* and the registry as they were.
C10_UnregisteredNameFails ==
    [][(ret'.op \in NamedOperations /\ ret'.name \notin DOMAIN patterns) =>
           /\ ret'.out = NotFound(ret'.name)
           /\ grid' = grid
           /\ patterns' = patterns]_vars

\* A call asked for a name that is not stored, on a generator that has a
\* stored pattern and a drawn cell, and ended with the ValueError.
C10_Witness ==
    /\ ret.op \in NamedOperations
    /\ ret.name \notin DOMAIN patterns
    /\ ret.out.status = "ValueError"
    /\ DOMAIN patterns # {}
    /\ \E c \in DOMAIN grid : grid[c] # 0

\* C11 (as claimed): compose_patterns with a name list that holds a name
\* that is not stored ends with the not-found ValueError, whatever the
\* offsets argument is: none, as long as the name list, or shorter.
C11_ComposeFailsOnAnyMissingName ==
    (ret.op = "compose_patterns" /\
     \E i \in DOMAIN ret.args[1] : ret.args[1][i] \notin DOMAIN patterns)
        => ret.out.status = "ValueError"

\* The add_pattern calls for the name made before call i.
AddsBefore(i, pattern_name) ==
    {j \in 1..(i - 1) : log[j].op = "add_pattern" /\ log[j].name = pattern_name}

\* The point set stored under the name when call i was made.
RegisteredAt(i, pattern_name) ==
    PointSetOf(log[SetMax(AddsBefore(i, pattern_name))].args[1])

\* Call i is a draw_pattern of a pattern that was stored at the time.
SuccessfulDraw(i) ==
    log[i].op = "draw_pattern" /\ AddsBefore(i, log[i].name) # {}

\* The calls that decide what cell c holds: every clear_grid, and every
\* successful draw whose pattern, as stored then, had the point c.
Deciding(c) ==
    {i \in DOMAIN log :
        \/ log[i].op = "clear_grid"
        \/ SuccessfulDraw(i) /\ GridPoint(c[1], c[2]) \in RegisteredAt(i, log[i].name)}

LastDrawnValue(c) ==
    IF Deciding(c) = {} THEN 0
    ELSE LET i == SetMax(Deciding(c))
         IN  IF log[i].op = "clear_grid" THEN 0 ELSE log[i].args[1]

\* C12: after any run of add_pattern, draw_pattern and clear_grid calls every
\* cell of the grid holds the value of the latest successful draw_pattern
\* since the latest clear_grid whose pattern, as stored at the time of that
\* draw, had the cell, and 0 when there is none; the grid keeps its cells,
\* and a draw of a stored pattern with points outside the grid returns
\* without an error.
C12_CellHoldsLatestDraw ==
    /\ DOMAIN grid = (0..(width - 1)) \X (0..(height - 1))
    /\ \A c \in DOMAIN grid : grid[c] = LastDrawnValue(c)
    /\ \A i \in DOMAIN log : SuccessfulDraw(i) => log[i].out.status = "ok"

\* A pattern with points outside the grid was drawn, and the grid holds the
\* values of two draws.
C12_Witness ==
    /\ \E i \in DOMAIN log :
           /\ SuccessfulDraw(i)
           /\ \E p \in RegisteredAt(i, log[i].name) : ~InBounds(Self, p.x, p.y)
    /\ \E c1, c2 \in DOMAIN grid : grid[c1] = 1 /\ grid[c2] = 2

\* The cells of the grid that hold a value other than 0.
NonZeroCells == {c \in DOMAIN grid : grid[c] # 0}

Adjacent(c, d) == Abs(c[1] - d[1]) + Abs(c[2] - d[2]) = 1

\* S with the non-zero cells that touch it, and again, until nothing joins.
RECURSIVE GrowComponent(_)
GrowComponent(S) ==
    LET T == S \cup {c \in NonZeroCells : \E d \in S : Adjacent(c, d)}
    IN  IF T = S THEN S ELSE GrowComponent(T)

\* The 4-connected component of non-zero cells that holds start, empty when
\* start is outside the grid or holds 0.
ComponentOf(start) ==
    IF start \in NonZeroCells THEN GrowComponent({start}) ELSE {}

CellsOf(traversal) == {<<traversal[i].x, traversal[i].y>> : i \in DOMAIN traversal}

FreshNeighbours(c, seen) ==
    {k \in 1..4 : <<c[1] + Directions[k][1], c[2] + Directions[k][2]>> \in NonZeroCells \ seen}

FirstFreshNeighbour(c, seen) ==
    LET k == SetMin(FreshNeighbours(c, seen))
    IN  <<c[1] + Directions[k][1], c[2] + Directions[k][2]>>

\* The positions among the first k of the cell list cs whose cell still has
\* a non-zero neighbour outside those k cells.
StillOpen(cs, k) ==
    {j \in 1..k : FreshNeighbours(cs[j], {cs[i] : i \in 1..k}) # {}}

CellList(traversal) == [i \in DOMAIN traversal |-> <<traversal[i].x, traversal[i].y>>]

\* C20: the list traverse_pattern_dfs returns is a preorder with a fixed
\* neighbour order: it is empty exactly when start is outside the grid or
\* holds 0; otherwise it begins with start, the cell after the first k cells
\* is the first non-zero cell not among them, in the order (x, y+1),
\* (x+1, y), (x, y-1), (x-1, y), next to the latest of the k that has such a
\* neighbour, and the list ends only when no cell of it has one.
C20_DfsIsPreorder ==
    ret.op = "traverse_pattern_dfs" =>
        LET cs == CellList(ret.out.value)
        IN  /\ (cs = <<>>) <=> (ret.args[1] \notin NonZeroCells)
            /\ cs # <<>> => cs[1] = ret.args[1]
            /\ \A k \in 1..(Len(cs) - 1) :
                   /\ StillOpen(cs, k) # {}
                   /\ cs[k + 1] = FirstFreshNeighbour(cs[SetMax(StillOpen(cs, k))],
                                                      {cs[i] : i \in 1..k})
            /\ cs # <<>> => StillOpen(cs, Len(cs)) = {}

\* A depth-first traversal that had to go back: some cell of the list was
\* reached from a cell visited before the one just ahead of it.
C20_Witness ==
    /\ ret.op = "traverse_pattern_dfs"
    /\ LET cs == CellList(ret.out.value)
       IN  \E k \in 1..(Len(cs) - 1) :
               /\ StillOpen(cs, k) # {}
               /\ SetMax(StillOpen(cs, k)) < k

\* The calls that store a pattern, and the calls that return a new point set.
StoringOperations ==
    {"add_pattern", "create_concentric_squares", "create_concentric_circles"}

Transforms ==
    {"apply_horizontal_symmetry", "apply_vertical_symmetry", "apply_rotational_symmetry",
     "apply_diagonal_symmetry", "compose_patterns", "translate_pattern", "scale_pattern"}

\* C13: a call changes the registry only by storing under one name.
\* add_pattern leaves under its name exactly the set of the points of its
\* list, each once, and a generator leaves a set under its name; both leave
\* every other entry as it was.  draw_pattern, clear_grid, both traversals,
\* get_bounding_box and every transform (mirrors, rotation, diagonal
\* reflection, compose, translate, scale) leave the registry and every
\* stored set unchanged, and the transforms leave the grid unchanged too.
\* So each entry is what the latest add_pattern or generator call for its
\* name stored.
C13_RegistryChangesOnlyByStoring ==
    [][/\ ret'.op \notin StoringOperations => patterns' = patterns
       /\ ret'.op \in StoringOperations =>
              /\ DOMAIN patterns' = DOMAIN patterns \cup {ret'.name}
              /\ \A n \in DOMAIN patterns \ {ret'.name} : patterns'[n] = patterns[n]
       /\ ret'.op = "add_pattern" =>
              /\ patterns'[ret'.name] =
                     {GridPoint(t[1], t[2]) : t \in Range(ret'.args[1])}
              /\ Cardinality(patterns'[ret'.name]) = Cardinality(Range(ret'.args[1]))
       /\ ret'.op \in Transforms => grid' = grid]_vars

\* A mirror returned more points than its pattern holds, on a generator
\* with a drawn cell, and the pattern is still stored as it was added, from
\* a list that names a point twice.
C13_Witness ==
    /\ ret.op = "apply_horizontal_symmetry"
    /\ ret.out.status = "ok"
    /\ ret.name \in DOMAIN patterns
    /\ patterns[ret.name] = PointSetOf(<<<<0, 0>>, <<1, 0>>, <<0, 0>>>>)
    /\ ret.out.value # patterns[ret.name]
    /\ NonZeroCells # {}

\* A list of (x, y) tuples that names each point of S once.
RECURSIVE TupleList(_)
TupleList(S) ==
    IF S = {} THEN <<>>
    ELSE LET p == CHOOSE q \in S : TRUE
         IN  <<<<p.x, p.y>>>> \o TupleList(S \ {p})

\* The generator with the point set S stored under a name of its own.
WithStored(S) == [Self EXCEPT !.patterns = add_pattern(Self, "stored", TupleList(S))]

MirrorHorizontal(S) == apply_horizontal_symmetry(WithStored(S), "stored").value

MirrorVertical(S) == apply_vertical_symmetry(WithStored(S), "stored").value

\* C15: the set apply_horizontal_symmetry returns for a pattern P is P with
\* the images of its points under x -> width - 1 - x, it holds the image of
\* each of its points, and storing it and mirroring it again, once or
\* twice, returns the same set; likewise apply_vertical_symmetry with
\* y -> height - 1 - y.
C15_MirrorIsIdempotent ==
    /\ (ret.op = "apply_horizontal_symmetry" /\ ret.out.status = "ok") =>
           LET P == patterns[ret.name]
               R == ret.out.value
           IN  /\ R = P \cup {GridPoint(width - 1 - p.x, p.y) : p \in P}
               /\ \A p \in R : GridPoint(width - 1 - p.x, p.y) \in R
               /\ MirrorHorizontal(R) = R
               /\ MirrorHorizontal(MirrorHorizontal(R)) = R
    /\ (ret.op = "apply_vertical_symmetry" /\ ret.out.status = "ok") =>
           LET P == patterns[ret.name]
               R == ret.out.value
           IN  /\ R = P \cup {GridPoint(p.x, height - 1 - p.y) : p \in P}
               /\ \A p \in R : GridPoint(p.x, height - 1 - p.y) \in R
               /\ MirrorVertical(R) = R
               /\ MirrorVertical(MirrorVertical(R)) = R

\* A vertical mirror added points to a pattern that has a point outside the
\* grid.
C15_Witness ==
    /\ ret.op = "apply_vertical_symmetry"
    /\ ret.out.status = "ok"
    /\ ret.out.value # patterns[ret.name]
    /\ \E p \in patterns[ret.name] : ~InBounds(Self, p.x, p.y)

\* The image of point p under k quarter turns about the grid center
\* (width / 2, height / 2), each turn by the formula of the rotation loop,
\* with nothing dropped on the way.
RECURSIVE QuarterTurns(_, _)
QuarterTurns(p, k) ==
    IF k = 0 THEN p
    ELSE LET q == QuarterTurns(p, k - 1)
         IN  GridPoint(IntOfHalf(width - (2 * q.y - height)),
                       IntOfHalf(height + (2 * q.x - width)))

\* C16 (as claimed): for a pattern whose points all lie inside the grid,
\* apply_rotational_symmetry with angle 360 returns a set that holds, for
\* every point of the pattern, each of its images under 0, 1, 2 and 3
\* quarter turns about the grid center that lies inside the grid.
C16_FullTurnHoldsTheOrbit ==
    ( /\ ret.op = "apply_rotational_symmetry"
      /\ ret.out.status = "ok"
      /\ ret.args[1] = 360
      /\ \A p \in patterns[ret.name] : InBounds(Self, p.x, p.y) )
    => \A p \in patterns[ret.name] : \A k \in 0..3 :
           LET q == QuarterTurns(p, k)
           IN  InBounds(Self, q.x, q.y) => q \in ret.out.value

\* The Chebyshev distance of point p from the grid center
\* (width div 2, height div 2).
ChebyshevFromCenter(p) ==
    Max2(Abs(p.x - width \div 2), Abs(p.y - height \div 2))

\* The distances at which the pattern stored by the latest call has points.
RingDistances == {ChebyshevFromCenter(p) : p \in patterns[ret.name]}

\* Every point of the plane at Chebyshev distance d from the grid center.
ChebyshevRing(d) ==
    {p \in {GridPoint(x, y) : x \in (width \div 2 - d)..(width \div 2 + d),
                              y \in (height \div 2 - d)..(height \div 2 + d)} :
        ChebyshevFromCenter(p) = d}

\* C17: the points create_concentric_squares stores at a distance d are
\* exactly the cells at Chebyshev distance d from the grid center, 8d of
\* them and d at least 1; on the 21 x 21 grid, whose center is (10, 10), a
\* count of 3 stores the rings 1, 2 and 3, 48 points.
C17_RingsAreChebyshevRings ==
    ret.op = "create_concentric_squares" =>
        /\ \A d \in RingDistances :
               /\ d >= 1
               /\ {p \in patterns[ret.name] : ChebyshevFromCenter(p) = d} = ChebyshevRing(d)
               /\ Cardinality({p \in patterns[ret.name] : ChebyshevFromCenter(p) = d}) = 8 * d
        /\ (width = 21 /\ height = 21 /\ ret.args[1] = 3) =>
               /\ RingDistances = {1, 2, 3}
               /\ Cardinality(patterns[ret.name]) = 48

\* create_concentric_squares(3) was called on the 21 x 21 grid and stored 48
\* points.
C17_Witness ==
    /\ ret.op = "create_concentric_squares"
    /\ width = 21 /\ height = 21 /\ ret.args[1] = 3
    /\ Cardinality(patterns[ret.name]) = 48

\* The largest distance whose ring lies inside the grid.
LargestFittingRing ==
    Min2(Min2(width \div 2, width - 1 - width \div 2),
         Min2(height \div 2, height - 1 - height \div 2))

\* C18 (as claimed): create_concentric_squares(count) stores the rings of
\* the distances 1..min(count, R), R the largest distance whose ring lies
\* inside the grid, and no stored point lies outside the grid.
C18_RingsUpToTheLargestThatFits ==
    ret.op = "create_concentric_squares" =>
        /\ RingDistances = 1..Min2(ret.args[1], LargestFittingRing)
        /\ \A p \in patterns[ret.name] : InBounds(Self, p.x, p.y)

\* What apply_rotational_symmetry returns now for the pattern of the latest
\* call and the angle.
Rotated(angle) == apply_rotational_symmetry(Self, ret.name, angle).value

\* C19: rotation adds and never takes away: for a stored pattern P,
\* P is within the result for 90, that within the result for 180, that
\* within the result for 270; the result for 0 is P; and every point a
\* result holds beyond P lies inside the grid.
C19_RotationAccumulates ==
    (ret.op = "apply_rotational_symmetry" /\ ret.out.status = "ok") =>
        LET P == patterns[ret.name]
        IN  /\ ret.out.value = Rotated(ret.args[1])
            /\ P \subseteq ret.out.value
            /\ Rotated(0) = P
            /\ P \subseteq Rotated(90)
            /\ Rotated(90) \subseteq Rotated(180)
            /\ Rotated(180) \subseteq Rotated(270)
            /\ \A q \in ret.out.value \ P : InBounds(Self, q.x, q.y)

\* A rotation by 270 whose three passes each added a point.
C19_Witness ==
    /\ ret.op = "apply_rotational_symmetry"
    /\ ret.out.status = "ok"
    /\ ret.args[1] = 270
    /\ Rotated(90) # patterns[ret.name]
    /\ Rotated(180) # Rotated(90)
    /\ ret.out.value # Rotated(180)

\* The non-zero cells within d steps of start, each step to a 4-connected
\* non-zero cell.
RECURSIVE Ball(_, _)
Ball(start, d) ==
    IF d = 0 THEN {start} \cap NonZeroCells
    ELSE LET B == Ball(start, d - 1)
         IN  B \cup {c \in NonZeroCells : \E b \in B : Adjacent(c, b)}

\* The length of the shortest such path from start to the cell c of its
\* component.
PathDistance(start, c) ==
    SetMin({d \in 0..Cardinality(NonZeroCells) : c \in Ball(start, d)})

\* The position in the cell list cs of the cell that discovered cs[i]: the
\* first of the list next to it.
Discoverer(cs, i) == SetMin({j \in DOMAIN cs : Adjacent(cs[j], cs[i])})

\* The place of the step from cell c to the cell d next to it in the order
\* (x, y+1), (x+1, y), (x, y-1), (x-1, y).
DirectionIndex(c, d) ==
    CHOOSE k \in DOMAIN Directions : Directions[k] = <<d[1] - c[1], d[2] - c[2]>>

\* C21: the list traverse_pattern_bfs returns is in level order: the
\* shortest 4-connected path distance from start through non-zero cells
\* never decreases along the list, and two cells discovered from the same
\* cell stand in the neighbour order (x, y+1), (x+1, y), (x, y-1), (x-1, y).
C21_BfsIsLevelOrder ==
    ret.op = "traverse_pattern_bfs" =>
        LET cs == CellList(ret.out.value)
            start == ret.args[1]
        IN  /\ \A i, j \in DOMAIN cs :
                   i < j => PathDistance(start, cs[i]) <= PathDistance(start, cs[j])
            /\ \A i, j \in 2..Len(cs) :
                   (i < j /\ Discoverer(cs, i) = Discoverer(cs, j)) =>
                       DirectionIndex(cs[Discoverer(cs, i)], cs[i])
                           < DirectionIndex(cs[Discoverer(cs, j)], cs[j])

\* A breadth-first traversal that reached distance 2, found two cells from
\* one cell, and visited in an order the depth-first traversal does not.
C21_Witness ==
    /\ ret.op = "traverse_pattern_bfs"
    /\ LET cs == CellList(ret.out.value)
       IN  /\ \E i \in DOMAIN cs : PathDistance(ret.args[1], cs[i]) >= 2
           /\ \E i, j \in 2..Len(cs) : i < j /\ Discoverer(cs, i) = Discoverer(cs, j)
    /\ traverse_pattern_dfs(Self, ret.args[1]).value # ret.out.value

\* Cell c lies in the s x s block of the source point p.
InBlockOf(p, s, c) ==
    /\ p.x * s <= c[1] /\ c[1] < p.x * s + s
    /\ p.y * s <= c[2] /\ c[2] < p.y * s + s

\* No cell of the s x s block of p is outside the grid.
BlockFits(p, s) ==
    /\ 0 <= p.x * s /\ p.x * s + s <= width
    /\ 0 <= p.y * s /\ p.y * s + s <= height

\* C22: scale_pattern(name, s) on a stored pattern P returns exactly the
\* cells of the grid that lie in the block {(x*s+i, y*s+j) : 0 <= i,j < s}
\* of some point (x, y) of P; no grid cell lies in the blocks of two points
\* of P, so for s >= 1 and no block clipped the result has s*s*|P| points;
\* s = 1 returns the in-bounds points of P; s <= 0 returns the empty set.
C22_ScaleIsClippedBlocks ==
    (ret.op = "scale_pattern" /\ ret.name \in DOMAIN patterns) =>
        LET P == patterns[ret.name]
            s == ret.args[1]
        IN  /\ ret.out.status = "ok"
            /\ ret.out.value =
                   {GridPoint(c[1], c[2]) : c \in {d \in DOMAIN grid : \E p \in P : InBlockOf(p, s, d)}}
            /\ \A c \in DOMAIN grid : Cardinality({p \in P : InBlockOf(p, s, c)}) <= 1
            /\ (s >= 1 /\ \A p \in P : BlockFits(p, s)) =>
                   Cardinality(ret.out.value) = s * s * Cardinality(P)
            /\ s = 1 => ret.out.value = {p \in P : InBounds(Self, p.x, p.y)}
            /\ s <= 0 => ret.out.value = {}

\* A pattern of at least two points grown by a factor of 2 or more with
\* every block whole inside the grid.
C22_Witness ==
    /\ ret.op = "scale_pattern"
    /\ ret.name \in DOMAIN patterns
    /\ ret.args[1] >= 2
    /\ Cardinality(patterns[ret.name]) >= 2
    /\ \A p \in patterns[ret.name] : BlockFits(p, ret.args[1])
    /\ Cardinality(ret.out.value) >= 8

\* The list s read in the order pi, a permutation of its positions.
Reordered(s, pi) == [i \in DOMAIN s |-> s[pi[i]]]

\* The points of the grid among those of S.
InsideGrid(S) == {p \in S : InBounds(Self, p.x, p.y)}

\* C23: with every name stored, compose_patterns(names, offsets) with as
\* many offsets as names is the union over i of translate_pattern(names[i],
\* offsets[i]), and so is the same for every reordering of the (name,
\* offset) pairs; with offsets omitted it is the union of the named
\* patterns restricted to the grid; and every point that translate_pattern
\* or compose_patterns returns lies inside the grid.
C23_ComposeIsUnionOfTranslates ==
    /\ (ret.op = "compose_patterns" /\
        \A i \in DOMAIN ret.args[1] : ret.args[1][i] \in DOMAIN patterns) =>
           LET names == ret.args[1]
               offsets == ret.args[2]
           IN  /\ ret.out.status = "ok"
               /\ (~offsets.none /\ Len(offsets.value) = Len(names)) =>
                      /\ ret.out.value =
                             UNION {translate_pattern(Self, names[i], offsets.value[i][1],
                                                      offsets.value[i][2]).value :
                                        i \in DOMAIN names}
                      /\ \A pi \in Permutations(DOMAIN names) :
                             compose_patterns(Self, Reordered(names, pi),
                                              Some(Reordered(offsets.value, pi))).value
                                 = ret.out.value
               /\ offsets.none =>
                      ret.out.value = InsideGrid(UNION {patterns[names[i]] : i \in DOMAIN names})
               /\ ret.out.value = InsideGrid(ret.out.value)
    /\ (ret.op = "translate_pattern" /\ ret.out.status = "ok") =>
           ret.out.value = InsideGrid(ret.out.value)

\* Two stored patterns composed with one offset each, one of them moved: a
\* point was moved to a new cell and a point was clipped.
C23_Witness ==
    /\ ret.op = "compose_patterns"
    /\ Len(ret.args[1]) = 2
    /\ ret.args[1][1] # ret.args[1][2]
    /\ \A i \in 1..2 : ret.args[1][i] \in DOMAIN patterns
    /\ ~ret.args[2].none
    /\ Len(ret.args[2].value) = 2
    /\ ret.out.value # InsideGrid(patterns[ret.args[1][1]] \cup patterns[ret.args[1][2]])
    /\ \E i \in 1..2 : \E p \in patterns[ret.args[1][i]] :
           /\ InBounds(Self, p.x, p.y)
           /\ ~InBounds(Self, p.x + ret.args[2].value[i][1], p.y + ret.args[2].value[i][2])

\* The 0-based indices a result reports as duplicates: the list in its
\* duplicate warning, none when it has no such warning.
ReportedDuplicates(r) ==
    UNION {{w.args[k] : k \in 2..Len(w.args)} :
               w \in {v \in Range(r.warnings) : v.text = "Found {} duplicate point(s) at indices: {}"}}

\* Points within the identity tolerance of each other: less than 1e-9 apart
\* in each coordinate, in units of 1e-11.
WithinIdentityTolerance(p, q) == Abs(p.x - q.x) < 100 /\ Abs(p.y - q.y) < 100

\* C24 (as claimed): validate_pattern reports the 0-based index i as a
\* duplicate exactly when some earlier point j < i that was kept (not itself
\* reported) lies within 1e-9 in each coordinate of point i; duplicates add
\* a warning and no error; and unique_points = total_points - (number of
\* reported indices).
C24_DuplicatesAreTheNearRepeats ==
    \A c \in CallsOf("validate_pattern") :
        log[c].points # <<>> =>
            LET r == ResultOf(c)
                points == log[c].points
                dups == ReportedDuplicates(r)
            IN  /\ \A i \in 0..(Len(points) - 1) :
                       (i \in dups) <=>
                           \E j \in 0..(i - 1) :
                               /\ j \notin dups
                               /\ WithinIdentityTolerance(points[j + 1], points[i + 1])
                /\ \A e \in Range(r.errors) : e.text # "Found {} duplicate point(s) at indices: {}"
                /\ r.metadata["unique_points"] =
                       r.metadata["total_points"] - Cardinality(dups)

\* The offsets of the points of S from the center (width // 2, height // 2).
OffsetsFromCenter(S) == {<<p.x - (width \div 2), p.y - (height \div 2)>> : p \in S}

\* Radius r around the center stays inside the grid.
RadiusFits(r) ==
    /\ 0 <= (width \div 2) - r /\ (width \div 2) + r < width
    /\ 0 <= (height \div 2) - r /\ (height \div 2) + r < height

\* C25: on a grid in which radius count fits around the center, the pattern
\* create_concentric_circles(count) stores is carried onto itself by
\* negating the x offset from the center, by negating the y offset and by
\* swapping the two offsets (which generate the 8 symmetries), and holds
\* (cx+r, cy), (cx-r, cy), (cx, cy+r), (cx, cy-r) for every r in 1..count.
C25_CirclesAreEightfoldSymmetric ==
    (ret.op = "create_concentric_circles" /\ RadiusFits(ret.args[1])) =>
        LET O == OffsetsFromCenter(patterns[ret.name])
        IN  /\ {<<-o[1], o[2]>> : o \in O} = O
            /\ {<<o[1], -o[2]>> : o \in O} = O
            /\ {<<o[2], o[1]>> : o \in O} = O
            /\ \A r \in 1..ret.args[1] :
                   {<<r, 0>>, <<-r, 0>>, <<0, r>>, <<0, -r>>} \subseteq O

\* Circles up to a radius of 2 or more that fits, with points off the axes
\* and off the diagonals.
C25_Witness ==
    /\ ret.op = "create_concentric_circles"
    /\ ret.args[1] >= 2
    /\ RadiusFits(ret.args[1])
    /\ \E o \in OffsetsFromCenter(patterns[ret.name]) :
           o[1] # 0 /\ o[2] # 0 /\ Abs(o[1]) # Abs(o[2])

\* C26 (as claimed): extract_pattern_features returns the empty mapping
\* exactly when the point list is empty; for every non-empty point list and
\* every connection list it returns (it does not fail) a mapping whose
\* point_count is the number of points, whose connection_count is the
\* number of connections and whose complexity is what
\* calculate_pattern_complexity returns for the same arguments.
C26_FeaturesForEveryPattern ==
    \A i \in CallsOf("extract_pattern_features") :
        LET r == log[i].result
        IN  /\ (log[i].points = <<>>) <=> (r.status = "ok" /\ DOMAIN r.value = {})
            /\ log[i].points # <<>> =>
                   /\ r.status = "ok"
                   /\ r.value.point_count = Len(log[i].points)
                   /\ r.value.connection_count = Len(log[i].connections)
                   /\ r.value.complexity =
                          calculate_pattern_complexity(log[i].points, log[i].connections)

\* The list s holds no cell twice.
NoRepeats(s) == \A i, j \in DOMAIN s : i # j => s[i] # s[j]

\* C27 (as claimed): for every grid content and every start cell, in the
\* grid or outside it, traverse_pattern_dfs and traverse_pattern_bfs end by
\* returning a list that holds no cell twice and is no longer than the
\* number of non-zero cells, and they leave the grid as it was.
C27_TraversalsReturnBoundedLists ==
    [][(ret'.op \in {"traverse_pattern_dfs", "traverse_pattern_bfs"} /\ ncalls' # ncalls) =>
           /\ ret'.out.status = "ok"
           /\ NoRepeats(ret'.out.value)
           /\ Len(ret'.out.value) <= Cardinality(NonZeroCells)
           /\ grid' = grid]_vars

ReflectDiagonal(S, main_diagonal) ==
    apply_diagonal_symmetry(WithStored(S), "stored", main_diagonal).value

\* C28 (as claimed): on every grid, square or not, and for both diagonals,
\* storing the set apply_diagonal_symmetry returns for a pattern and
\* applying apply_diagonal_symmetry with the same diagonal to it returns
\* that same set.
C28_DiagonalIsIdempotent ==
    (ret.op = "apply_diagonal_symmetry" /\ ret.out.status = "ok") =>
        ReflectDiagonal(ret.out.value, ret.args[1]) = ret.out.value

\* The same for the main diagonal on every grid and for the anti-diagonal
\* on square grids.
C28_IdempotentWhereInvolutive ==
    (ret.op = "apply_diagonal_symmetry" /\ ret.out.status = "ok"
        /\ (ret.args[1] \/ width = height)) =>
        ReflectDiagonal(ret.out.value, ret.args[1]) = ret.out.value

\* The distance between points[i] and points[j] (0-based, in range) is more
\* than max_gap = num / den: with doubled coordinates, sqrt(d2) / 2 > num / den.
FartherThan(points, i, j, max_gap) ==
    LET dx == points[i + 1].x - points[j + 1].x
        dy == points[i + 1].y - points[j + 1].y
    IN  (dx * dx + dy * dy) * max_gap.den * max_gap.den > 4 * max_gap.num * max_gap.num

\* C29 (as claimed): validate_line_continuity does not fail; the connections
\* it reports as discontinuities are exactly those with both indices in
\* 0 .. len(points) - 1 and a distance between the two points above max_gap,
\* so a connection with an index out of range, negative ones included, is
\* never reported; and continuous + discontinuous = total_connections.
C29_DiscontinuitiesAreTheLongInRangeLinks ==
    \A c \in CallsOf("validate_line_continuity") :
        LET r == log[c].result
            points == log[c].points
            connections == log[c].connections
            n == Len(points)
        IN  /\ r.status = "ok"
            /\ {d.connection_index : d \in Range(r.result.discontinuities)} =
                   {k - 1 : k \in {j \in DOMAIN connections :
                                      /\ InRange(connections[j][1], n)
                                      /\ InRange(connections[j][2], n)
                                      /\ FartherThan(points, connections[j][1],
                                                     connections[j][2], log[c].max_gap)}}
            /\ r.result.continuous + r.result.discontinuous = r.result.total_connections

\* The positions of the connections with both indices in 0 .. n - 1.
InRangeConnections(connections, n) ==
    {k \in DOMAIN connections : InRange(connections[k][1], n) /\ InRange(connections[k][2], n)}

\* The degree of point p (0-based): the ends of in-range connections at p,
\* both ends of a self-loop counted.
DegreeOf(p, connections, n) ==
    Cardinality({e \in InRangeConnections(connections, n) \X {1, 2} : connections[e[1]][e[2]] = p})

\* C30: whenever validate_pattern stores degree_stats for n >= 1 points, the
\* degrees it summarises are the counts of in-range connection ends at each
\* point (a self-loop counts 2), so mean = 2 * (in-range connections) / n,
\* min and max are the least and the largest degree, and min <= mean <= max;
\* and when n >= 2 and some point has degree 0, is_connected is false.
C30_DegreesSumToTwiceTheLinks ==
    \A c \in CallsOf("validate_pattern") :
        LET md == ResultOf(c).metadata
            connections == log[c].connections
            n == Len(log[c].points)
            degrees == {DegreeOf(p, connections, n) : p \in 0..(n - 1)}
        IN  ("degree_stats" \in DOMAIN md /\ n >= 1) =>
                LET stats == md["degree_stats"]
                IN  /\ stats.mean.num * n =
                           2 * Cardinality(InRangeConnections(connections, n)) * stats.mean.den
                    /\ stats.min = SetMin(degrees)
                    /\ stats.max = SetMax(degrees)
                    /\ stats.min * stats.mean.den <= stats.mean.num
                    /\ stats.mean.num <= stats.max * stats.mean.den
                    /\ (n >= 2 /\ 0 \in degrees) =>
                           /\ "is_connected" \in DOMAIN md
                           /\ md["is_connected"] = FALSE

\* degree_stats for three points with a self-loop, a connection with an
\* index out of range and a point of degree 0.
C30_Witness ==
    \E c \in CallsOf("validate_pattern") :
        LET connections == log[c].connections
            n == Len(log[c].points)
        IN  /\ "degree_stats" \in DOMAIN ResultOf(c).metadata
            /\ n = 3
            /\ HasSelfLoop(SubSeq(connections, 1, 1)) /\ InRange(connections[1][1], n)
            /\ InRangeConnections(connections, n) # DOMAIN connections
            /\ \E p \in 0..(n - 1) : DegreeOf(p, connections, n) = 0
            /\ ResultOf(c).metadata["degree_stats"].max >= 2

====
